---- MODULE Spec2Model ----
\* Model of the steep_repl work queue (extensions/steep_repl/src/work_queue.rs)
\* and of the background workers that drain it (worker.rs).
\*
\* The queue is a PostgreSQL table.  The model keeps the committed rows in
\* work_queue, and for every backend process its open transaction: the row it
\* locked with FOR UPDATE SKIP LOCKED and the uncommitted version it wrote.
\* Statements run at READ COMMITTED: they see committed rows, a locked row is
\* skipped by SKIP LOCKED and makes a plain UPDATE that matches it wait.
EXTENDS Integers, Sequences, FiniteSets, TLC

\* ---------------------------------------------------------------- bounds
MaxId == 2          \* values the BIGSERIAL id sequence may hand out
NumProcs == 2       \* backend processes (sessions and background workers)
MaxClock == 2       \* wall-clock instants
MaxBackends == 3    \* sessions that use or write the quiesced table
MaxHold == 2        \* times one session takes the advisory lock again
MaxKey == 3         \* primary keys of the compared tables
MaxMergeKey == 1    \* primary keys of the tables a merge runs on
MaxAudit == 2       \* values the audit log's BIGSERIAL id may hand out
MaxDiscovery == 12  \* iterations of the coordinator's main loop

Pids == 1..NumProcs
Backends == 1..MaxBackends
Ids == 1..MaxId
Keys == 1..MaxKey
MergeKeys == 1..MaxMergeKey

\* ---------------------------------------------------------------- values
BACKOFF_ITERATIONS == 60
NULL == 0
NullText == "NULL"
NoError == <<>>

Operations == {"snapshot_generate", "snapshot_apply", "bidirectional_merge"}
Statuses == {"pending", "running", "complete", "failed", "cancelled"}
Terminal == {"complete", "failed", "cancelled"}

\* inputs of the enqueue calls
OperationInputs == Operations \cup {"unknown_operation"}
SnapshotInputs == {NullText, "snap_a"}
MergeInputs == {NullText, "b1eebc99"}
ErrorInputs == {<<"Test error message">>}

\* ---------------------------------------------------------------- schema fingerprints
Sides == {"local", "remote"}
FpTables == {"orders", "users"}
\* node_ids in steep_repl.nodes, and the peers the callers name
Nodes == {"node_b"}
PeerInputs == {"node_b", "node_x"}
\* a NULL fingerprint
NullDigest == <<>>
IdColumn == [column_name |-> "id", type |-> "integer", column_default |-> NullText, is_nullable |-> "NO"]
TagsColumn == [column_name |-> "tags", type |-> "integer[]", column_default |-> NullText, is_nullable |-> "YES"]
\* the column lists a table is given; <<>>: the table does not exist
ColumnLists ==
    { <<>>, <<IdColumn>>, <<IdColumn, TagsColumn>>, <<TagsColumn, IdColumn>>,
      <<IdColumn, [TagsColumn EXCEPT !.type = "text[]"]>>,
      <<IdColumn, [TagsColumn EXCEPT !.type = "text", !.is_nullable = "NO"]>>,
      <<IdColumn, [TagsColumn EXCEPT !.column_default = "'{}'"]>>,
      <<IdColumn, [TagsColumn EXCEPT !.is_nullable = "NO"]>> }

\* ---------------------------------------------------------------- snapshot records
SnapshotIds == {"snap_a", "snap_b"}
\* no row with this snapshot_id
NoSnapshotRow == [status |-> NullText, phase |-> NullText, overall_percent |-> NULL, created_at |-> NULL, started_at |-> NULL, completed_at |-> NULL]

\* intervals given to prune_work_queue, in clock units
IntervalInputsPrune == {-1, 0, 1}

\* ---------------------------------------------------------------- database names
\* names are UTF-8 bytes
Comma == <<44>>
Space == <<32>>
NameApp == <<97, 112, 112>>
NameWarehouse == <<119, 97, 114, 101, 104, 111, 117, 115, 101>>
\* the databases that are created, dropped and registered
DatabaseNames == {NameWarehouse, NameApp \o Comma \o NameWarehouse}
\* the names the coordinator finds in the list it splits
WorkerNames == DatabaseNames \cup {NameApp}

\* ---------------------------------------------------------------- state
VARIABLES
    work_queue,   \* committed rows of steep_repl.work_queue: id -> row
    seq,          \* last value handed out by the id sequence
    clock,        \* wall clock
    alive,        \* pids listed in pg_stat_activity
    pc,           \* position of every process
    txrow,        \* id of the row the process's transaction has locked, or NULL
    txver,        \* uncommitted version of that row written by the transaction
    txstart,      \* now() of the open transaction
    trail,        \* statuses the open transaction has written to its row
    hist,         \* id -> statuses of the committed versions of the row, in order
    claimers,     \* id -> processes whose claim of the row has been committed
    claimed_by,   \* id -> processes that executed the claiming UPDATE on the row
    result,       \* the last call and what it returned
    cancel_waiting,    \* ids on which a cancel UPDATE waits for the row lock
    cancel_requested,  \* ids on which cancel was called while a worker ran them
    progress,     \* OPERATION_PROGRESS: the record in shared memory
    lwlock,       \* pid that holds the record's LWLock exclusively, or NULL
    stable,       \* the record as the last finished exclusive section left it
    snap,         \* the last get_progress_snapshot(): what it saw
    sessions,     \* connected backends, as pg_stat_activity lists them now
    activity,     \* session -> the pg_stat_activity snapshot of its transaction
    advisory,     \* session -> times it holds the table's advisory lock
    writers,      \* sessions that hold a write lock on the table
    qcall,        \* session -> its quiesce_writes call in progress
    qresult,      \* the last quiesce/release call and what it returned
    local_table,  \* the local table: primary key -> row, or Absent
    remote_table, \* the remote table: primary key -> row, or Absent
    overlap,      \* what the last compare_table_rows call returned
    audit_log,    \* rows of steep_repl.merge_audit_log: id -> row
    audit_seq,    \* last value handed out by the audit log's id sequence
    mresult,      \* the last merge or audit-log call and what it did
    pcall,        \* the last call of the progress API on the record
    strings,      \* the record's string fields, byte by byte: field -> bytes
    scall,        \* the last string written to a field, and the field
    catalog,      \* node -> table -> the table's columns as declared, in order
    schema_fingerprints,  \* rows of the local steep_repl.schema_fingerprints
    fresult,      \* the last fingerprint call and what it returned
    snapshots,    \* rows of steep_repl.snapshots: snapshot_id -> row
    sresult,      \* the last snapshot or queue call and what it returned
    presult,      \* the last prune_work_queue call and the count it returned
    databases,    \* steep_repl.databases: datname -> absent, enabled or disabled
    pg_database,  \* names of the databases that exist
    catalog_exists,  \* the extension is installed in the postgres database
    coordinator,  \* the static worker's local variables
    spawned       \* the database workers the coordinator has spawned, in order

queueVars == <<work_queue, seq, clock, alive, pc, txrow, txver, txstart, trail,
               hist, claimers, claimed_by, result>>

cancelVars == <<cancel_waiting, cancel_requested>>

progressVars == <<progress, lwlock, stable, snap>>

quiesceVars == <<sessions, activity, advisory, writers, qcall, qresult>>

mergeVars == <<local_table, remote_table, overlap, audit_log, audit_seq, mresult>>

recordVars == <<pcall>>

stringVars == <<strings, scall>>

fingerprintVars == <<catalog, schema_fingerprints, fresult>>

snapshotVars == <<snapshots, sresult, presult>>

coordinatorVars == <<databases, pg_database, catalog_exists, coordinator, spawned>>

\* the state of the subsystems that share nothing with the ones above
restVars == <<stringVars, fingerprintVars, snapshotVars, coordinatorVars>>

vars == <<queueVars, cancelVars, progressVars, quiesceVars, mergeVars, recordVars, restVars>>

\* what the work-queue statements leave alone
otherVars == <<cancelVars, progressVars, quiesceVars, mergeVars, recordVars, restVars>>

NoRow == [operation |-> NullText, snapshot_id |-> NullText, merge_id |-> NullText,
          status |-> NullText, worker_pid |-> NULL, error_message |-> NoError,
          created_at |-> NULL, started_at |-> NULL, completed_at |-> NULL]

\* what the last call was, who made it, on which id, with which arguments, and
\* what it returned
Result(op, pid, id, args, ret) ==
    [op |-> op, pid |-> pid, id |-> id, args |-> args, ret |-> ret]

NoResult == Result("none", NULL, NULL, <<>>, "none")

Rows == DOMAIN work_queue

\* ---------------------------------------------------------------- table DDL
\* CREATE TABLE steep_repl.work_queue: column defaults of a new row
NewRow(operation, snapshot_id, merge_id, now) ==
    [operation |-> operation, snapshot_id |-> snapshot_id, merge_id |-> merge_id,
     status |-> "pending", worker_pid |-> NULL, error_message |-> NoError,
     created_at |-> now, started_at |-> NULL, completed_at |-> NULL]

work_queue_operation_check(r) ==
    r.operation \in {"snapshot_generate", "snapshot_apply", "bidirectional_merge"}

work_queue_status_check(r) ==
    r.status \in {"pending", "running", "complete", "failed", "cancelled"}

work_queue_snapshot_required(r) ==
    \/ r.operation \in {"snapshot_generate", "snapshot_apply"} /\ r.snapshot_id # NullText
    \/ r.operation = "bidirectional_merge"

\* the table without CONSTRAINT work_queue_merge_required
work_queue_merge_required_Dropped(r) == TRUE

work_queue_merge_required(r) ==
    \/ r.operation = "bidirectional_merge" /\ r.merge_id # NullText
    \/ r.operation \in {"snapshot_generate", "snapshot_apply"}

CheckConstraints(r) ==
    /\ work_queue_operation_check(r)
    /\ work_queue_status_check(r)
    /\ work_queue_snapshot_required(r)
    /\ work_queue_merge_required(r)

\* ---------------------------------------------------------------- progress record
\* progress.rs OperationProgress::default(): the record after reset()
\* throughput_bytes_sec is a quotient of two whole numbers, kept as the pair
Throughput(bytes, secs) == [bytes |-> bytes, secs |-> secs]

DefaultProgress ==
    [active |-> FALSE, operation_type |-> "none", operation_id |-> "",
     phase |-> "idle", overall_percent |-> 0, eta_seconds |-> 0, work_queue_id |-> 0,
     tables_completed |-> 0, tables_total |-> 0, bytes_processed |-> 0,
     bytes_total |-> 0, rows_processed |-> 0, rows_total |-> 0,
     throughput_bytes_sec |-> Throughput(0, 1), started_at |-> 0,
     current_table |-> "", error_message |-> ""]

\* a call of the progress API: when it was made, and the call before it
PCall(op, now, prev) == [op |-> op, now |-> now, prev |-> prev]

NoPCall == PCall("none", 0, "none")

NoSnapshot == [seen |-> DefaultProgress, committed |-> DefaultProgress]

\* ---------------------------------------------------------------- string fields
\* progress.rs 16-22: the sizes of the three byte arrays
OPERATION_ID_LEN == 64
TABLE_NAME_LEN == 128
ERROR_MSG_LEN == 256

StringFields == {"operation_id", "current_table", "error_message"}

FieldLen(field) ==
    CASE field = "operation_id" -> OPERATION_ID_LEN
      [] field = "current_table" -> TABLE_NAME_LEN
      [] field = "error_message" -> ERROR_MSG_LEN

\* [0u8; N]
ZeroBytes(n) == [i \in 1..n |-> 0]

\* OperationProgress::default(): the three arrays
DefaultStrings == [field \in StringFields |-> ZeroBytes(FieldLen(field))]

NoSCall == [field |-> "none", input |-> <<>>]

\* ---------------------------------------------------------------- quiesce
\* no quiesce_writes call in progress
\* no pg_stat_activity snapshot taken yet in the session's transaction
NoActivity == [taken |-> FALSE, pids |-> {}]

NoCall == [timeout |-> 0, elapsed |-> 0, rounds |-> 0, held |-> 0, sleeping |-> FALSE]

\* a quiesce_writes / release_quiesce call: who made it, with which timeout,
\* the time it has measured, the sleeps it has taken, how often the caller
\* held the lock before the call, what it returned and the NOTICE it raised
QResult(op, pid, timeout, elapsed, rounds, held, ret, notice) ==
    [op |-> op, pid |-> pid, timeout |-> timeout, elapsed |-> elapsed,
     rounds |-> rounds, held |-> held, ret |-> ret, notice |-> notice]

NoQResult == QResult("none", NULL, 0, 0, 0, 0, "none", "")

\* ---------------------------------------------------------------- merge
\* a key without a row in a table; the NULL side of an outer join
Absent == [data |-> "absent", modified_at |-> 0]

\* a JSONB value that is SQL NULL
NullJson == <<>>

\* the rows a compared table can hold: data and a modification timestamp
RowA == [data |-> "a", modified_at |-> 1]
RowB == [data |-> "b", modified_at |-> 2]
RowC == [data |-> "c", modified_at |-> 2]
RowInputs == {RowA, RowB, RowC}

EmptyTable == [k \in Keys |-> Absent]

\* compare_table_rows has not been called since the tables changed
NotCompared == {[pk_value |-> NullJson, category |-> "none",
                 local_hash |-> NULL, remote_hash |-> NULL]}

\* no merge or audit-log call has been made since the tables changed
NoMResult == [op |-> "none"]

\* ---------------------------------------------------------------- locks
Locked(id) == \E p \in Pids : txrow[p] = id

LockedByOther(id, p) == \E q \in Pids \ {p} : txrow[q] = id

Init ==
    /\ work_queue = <<>>
    /\ seq = 0
    /\ clock = 1
    /\ alive = Pids
    /\ pc = [p \in Pids |-> "idle"]
    /\ txrow = [p \in Pids |-> NULL]
    /\ txver = [p \in Pids |-> NoRow]
    /\ txstart = [p \in Pids |-> NULL]
    /\ trail = [p \in Pids |-> <<>>]
    /\ hist = <<>>
    /\ claimers = <<>>
    /\ claimed_by = <<>>
    /\ result = NoResult
    /\ cancel_waiting = {}
    /\ cancel_requested = {}
    /\ progress = DefaultProgress
    /\ lwlock = NULL
    /\ stable = DefaultProgress
    /\ snap = NoSnapshot
    /\ sessions = {}
    /\ activity = [s \in Backends |-> NoActivity]
    /\ advisory = [s \in Backends |-> 0]
    /\ writers = {}
    /\ qcall = [s \in Backends |-> NoCall]
    /\ qresult = NoQResult
    /\ local_table = EmptyTable
    /\ remote_table = EmptyTable
    /\ overlap = NotCompared
    /\ audit_log = <<>>
    /\ audit_seq = 0
    /\ mresult = NoMResult
    /\ pcall = NoPCall
    /\ strings = DefaultStrings
    /\ scall = NoSCall
    /\ catalog = [side \in Sides |-> [t \in FpTables |-> <<>>]]
    /\ schema_fingerprints = {}
    /\ fresult = [op |-> "none", peer |-> NullText, table |-> NullText, ret |-> "none",
                  digest |-> NullDigest, rows |-> {}]
    /\ snapshots = [s \in SnapshotIds |-> NoSnapshotRow]
    /\ sresult = [op |-> "none", snapshot_id |-> NullText, id |-> NULL, ret |-> "none"]
    /\ presult = [op |-> "none", older_than |-> 0, ret |-> 0]
    /\ databases = [n \in DatabaseNames |-> "absent"]
    /\ pg_database = {}
    /\ catalog_exists = FALSE
    /\ coordinator = [discovery_counter |-> 0, warned_no_catalog |-> FALSE,
                      databases_with_workers |-> {},
                      failed_databases |-> [n \in WorkerNames |-> NULL]]
    /\ spawned = <<>>

\* ---------------------------------------------------------------- enqueue
\* INSERT INTO steep_repl.work_queue (operation, snapshot_id, merge_id):
\* the id default takes the next sequence value, then the CHECK constraints
\* decide whether the row is stored.
InsertRow(operation, snapshot_id, merge_id, call) ==
    /\ seq < MaxId
    /\ seq' = seq + 1
    /\ LET r == NewRow(operation, snapshot_id, merge_id, clock) IN
       IF CheckConstraints(r)
       THEN /\ work_queue' = work_queue @@ ((seq + 1) :> r)
            /\ hist' = hist @@ ((seq + 1) :> <<"pending">>)
            /\ claimers' = claimers @@ ((seq + 1) :> {})
            /\ claimed_by' = claimed_by @@ ((seq + 1) :> {})
            /\ result' = Result(call, NULL, seq + 1, <<operation, snapshot_id, merge_id>>, "ok")
       ELSE /\ UNCHANGED <<work_queue, hist, claimers, claimed_by>>
            /\ result' = Result(call, NULL, NULL, <<operation, snapshot_id, merge_id>>, "check_violation")
    /\ UNCHANGED <<clock, alive, pc, txrow, txver, txstart, trail>>
    /\ UNCHANGED otherVars

\* work_queue.rs queue_snapshot_generate / steep_repl.queue_snapshot_generate
queue_snapshot_generate ==
    \E snapshot_id \in SnapshotInputs :
        InsertRow("snapshot_generate", snapshot_id, NullText, "enqueue")

\* work_queue.rs queue_snapshot_apply / steep_repl.queue_snapshot_apply
queue_snapshot_apply ==
    \E snapshot_id \in SnapshotInputs :
        InsertRow("snapshot_apply", snapshot_id, NullText, "enqueue")

\* work_queue.rs queue_bidirectional_merge / steep_repl.queue_merge
queue_bidirectional_merge ==
    \E merge_id \in MergeInputs :
        InsertRow("bidirectional_merge", NullText, merge_id, "enqueue")

\* A direct INSERT naming operation, snapshot_id and merge_id, as the
\* extension's own tests issue it.
insert_work_queue ==
    \E operation \in OperationInputs, snapshot_id \in SnapshotInputs,
       merge_id \in MergeInputs :
        InsertRow(operation, snapshot_id, merge_id, "enqueue")

\* ---------------------------------------------------------------- claim
\* SELECT id FROM steep_repl.work_queue WHERE status = 'pending'
\* ORDER BY created_at LIMIT 1 FOR UPDATE SKIP LOCKED:
\* the rows the statement may return to process p.
\* a locking read that does not look at the row locks
Unlocked_IgnoringLocks(id, p) == TRUE

Unlocked(id, p) == ~LockedByOther(id, p)

PendingUnlocked(p) ==
    {id \in Rows : work_queue[id].status = "pending" /\ Unlocked(id, p)}

\* the SELECT without its ORDER BY created_at
OrderedBefore_Unordered(a, b) == TRUE

OrderedBefore(a, b) == work_queue[a].created_at <= work_queue[b].created_at

NextPending(p) ==
    {id \in PendingUnlocked(p) : \A o \in PendingUnlocked(p) : OrderedBefore(id, o)}

\* the claiming UPDATE without worker_pid = pg_backend_pid()
MarkRunning_NoPid(r, p, now) ==
    [r EXCEPT !.status = "running", !.started_at = now]

\* UPDATE ... SET status = 'running', started_at = now(), worker_pid = pg_backend_pid()
MarkRunning(r, p, now) ==
    [r EXCEPT !.status = "running", !.started_at = now, !.worker_pid = p]

\* UPDATE ... SET status = 'complete', completed_at = now()
MarkComplete(r, now) ==
    [r EXCEPT !.status = "complete", !.completed_at = now]

\* UPDATE ... SET status = 'failed', completed_at = now(), error_message = ...
MarkFailed(r, now, error) ==
    [r EXCEPT !.status = "failed", !.completed_at = now, !.error_message = error]

\* a cancelling UPDATE that leaves completed_at alone
MarkCancelled_NoTimestamp(r, now) ==
    [r EXCEPT !.status = "cancelled"]

\* UPDATE ... SET status = 'cancelled', completed_at = now()
MarkCancelled(r, now) ==
    [r EXCEPT !.status = "cancelled", !.completed_at = now]

ClearTx(p) ==
    /\ txrow' = [txrow EXCEPT ![p] = NULL]
    /\ txver' = [txver EXCEPT ![p] = NoRow]
    /\ txstart' = [txstart EXCEPT ![p] = NULL]
    /\ trail' = [trail EXCEPT ![p] = <<>>]

\* Steps 1 and 2 of a claim: the locking SELECT and the UPDATE that marks the
\* locked row running, both inside the caller's open transaction.  call names
\* the code path: "claim" is claim_next_work / steep_repl.claim_work(),
\* "worker" the loop of steep_repl_database_worker_main / steep_repl_worker_main.
SelectAndMarkRunning(p, call) ==
    /\ p \in alive
    /\ pc[p] = "idle"
    /\ IF NextPending(p) = {}
       THEN /\ result' = Result(call, p, NULL, <<>>, "NoWork")
            /\ UNCHANGED <<pc, txrow, txstart, txver, trail, claimed_by>>
       ELSE \E id \in NextPending(p) :
            /\ txrow' = [txrow EXCEPT ![p] = id]
            /\ txstart' = [txstart EXCEPT ![p] = clock]
            /\ txver' = [txver EXCEPT ![p] = MarkRunning(work_queue[id], p, clock)]
            /\ trail' = [trail EXCEPT ![p] = <<"running">>]
            /\ pc' = [pc EXCEPT ![p] = call \o "_running"]
            /\ claimed_by' = [claimed_by EXCEPT ![id] = @ \cup
                                (IF call = "claim" THEN {} ELSE {p})]
            /\ result' = Result(call, p, id, <<>>, "running")
    /\ UNCHANGED <<work_queue, seq, clock, alive, hist, claimers>>
    /\ UNCHANGED otherVars

\* The transaction commits: its version of the row becomes the committed one
\* and the row lock is released.
CommitTx(p, call, ret) ==
    /\ p \in alive
    /\ work_queue' = [work_queue EXCEPT ![txrow[p]] = txver[p]]
    /\ hist' = [hist EXCEPT ![txrow[p]] = @ \o trail[p]]
    /\ claimers' = [claimers EXCEPT ![txrow[p]] = @ \cup {p}]
    /\ claimed_by' = [claimed_by EXCEPT ![txrow[p]] = @ \cup {p}]
    /\ pc' = [pc EXCEPT ![p] = "idle"]
    /\ result' = Result(call, p, txrow[p], <<>>, ret)
    /\ ClearTx(p)
    /\ UNCHANGED <<seq, clock, alive>>
    /\ UNCHANGED otherVars

\* claim_next_work / steep_repl.claim_work()
claim_next_work_begin == \E p \in Pids : SelectAndMarkRunning(p, "claim")

claim_next_work_return ==
    \E p \in Pids : pc[p] = "claim_running" /\ CommitTx(p, "claim", "Claimed")

\* ---------------------------------------------------------------- workers
\* steep_repl_database_worker_main / steep_repl_worker_main: one iteration of
\* the loop is one transaction that claims a row and marks it complete.
worker_claim == \E p \in Pids : SelectAndMarkRunning(p, "worker")

\* UPDATE ... SET status = 'complete', completed_at = now() WHERE id = {}
worker_complete ==
    \E p \in Pids :
        /\ p \in alive
        /\ pc[p] = "worker_running"
        /\ txver' = [txver EXCEPT ![p] = MarkComplete(@, txstart[p])]
        /\ trail' = [trail EXCEPT ![p] = Append(@, "complete")]
        /\ pc' = [pc EXCEPT ![p] = "worker_complete"]
        /\ result' = NoResult
        /\ UNCHANGED <<work_queue, seq, clock, alive, txrow, txstart, hist,
                       claimers, claimed_by>>
        /\ UNCHANGED otherVars

worker_commit ==
    \E p \in Pids : pc[p] = "worker_complete" /\ CommitTx(p, "worker", "processed")

\* A backend process ends (crash, error, termination): it leaves
\* pg_stat_activity and its open transaction is rolled back.  No interrupt is
\* serviced between exclusive() and the drop of the guard, so a process does
\* not end inside an exclusive section of the progress record.
process_exit ==
    \E p \in alive :
        /\ lwlock # p
        /\ alive' = alive \ {p}
        /\ pc' = [pc EXCEPT ![p] = "dead"]
        /\ ClearTx(p)
        /\ result' = NoResult
        /\ UNCHANGED <<work_queue, seq, clock, hist, claimers, claimed_by>>
        /\ UNCHANGED otherVars

\* ---------------------------------------------------------------- finish
\* A single-row UPDATE ... WHERE id = {} AND status ...: it applies when the
\* committed row matches; a matching row locked by an open transaction makes
\* the statement wait for that transaction.
\* complete without its AND status = 'running'
CanComplete_AnyOpen(r) == r.status \in {"pending", "running"}

CanComplete(r) == r.status = "running"

CanFail(r) == r.status = "running"

\* cancel without its AND status IN ('pending', 'running')
CanCancel_AnyStatus(r) == TRUE

CanCancel(r) == r.status \in {"pending", "running"}

\* complete_work_entry / steep_repl.complete_work / worker.rs complete_work
complete_work_entry ==
    \E id \in Ids :
        /\ IF id \in Rows /\ CanComplete(work_queue[id])
           THEN /\ ~Locked(id)
                /\ work_queue' = [work_queue EXCEPT ![id] = MarkComplete(@, clock)]
                /\ hist' = [hist EXCEPT ![id] = Append(@, "complete")]
           ELSE UNCHANGED <<work_queue, hist>>
        /\ result' = Result("complete", NULL, id, <<>>, "ok")
        /\ UNCHANGED <<seq, clock, alive, pc, txrow, txver, txstart, trail,
                       claimers, claimed_by>>
        /\ UNCHANGED otherVars

\* fail_work_entry / steep_repl.fail_work / worker.rs fail_work
fail_work_entry ==
    \E id \in Ids, error \in ErrorInputs :
        /\ IF id \in Rows /\ CanFail(work_queue[id])
           THEN /\ ~Locked(id)
                /\ work_queue' = [work_queue EXCEPT ![id] = MarkFailed(@, clock, error)]
                /\ hist' = [hist EXCEPT ![id] = Append(@, "failed")]
           ELSE UNCHANGED <<work_queue, hist>>
        /\ result' = Result("fail", NULL, id, <<>>, "ok")
        /\ UNCHANGED <<seq, clock, alive, pc, txrow, txver, txstart, trail,
                       claimers, claimed_by>>
        /\ UNCHANGED otherVars

\* cancel_work_entry / steep_repl.cancel_work: returns whether a row was updated
cancel_work_entry ==
    \E id \in Ids :
        /\ IF id \in Rows /\ CanCancel(work_queue[id])
           THEN /\ ~Locked(id)
                /\ work_queue' = [work_queue EXCEPT ![id] = MarkCancelled(@, clock)]
                /\ hist' = [hist EXCEPT ![id] = Append(@, "cancelled")]
                /\ result' = Result("cancel", NULL, id, <<>>, "true")
           ELSE /\ UNCHANGED <<work_queue, hist>>
                /\ result' = Result("cancel", NULL, id, <<>>, "false")
        /\ UNCHANGED <<seq, clock, alive, pc, txrow, txver, txstart, trail,
                       claimers, claimed_by>>
        /\ UNCHANGED otherVars

\* ---------------------------------------------------------------- recovery
\* WHERE wq.status = 'running' AND NOT EXISTS
\*   (SELECT 1 FROM pg_stat_activity WHERE pid = wq.worker_pid)
\* recovery without the pg_stat_activity probe
Abandoned_NoProbe(r) == r.status = "running"

Abandoned(r) == r.status = "running" /\ r.worker_pid \notin alive

\* 'Worker process terminated unexpectedly (PID ' || wq.worker_pid || ')'
TerminatedMessage(r) == <<"Worker process terminated unexpectedly", r.worker_pid>>

\* recover_abandoned_work / steep_repl.recover_abandoned_work: returns the
\* number of rows it updated
recover_abandoned_work ==
    LET recovered == {id \in Rows : Abandoned(work_queue[id])} IN
    /\ \A id \in recovered : ~Locked(id)
    /\ work_queue' = [id \in Rows |->
                        IF id \in recovered
                        THEN MarkFailed(work_queue[id], clock,
                                        TerminatedMessage(work_queue[id]))
                        ELSE work_queue[id]]
    /\ hist' = [id \in Rows |->
                  IF id \in recovered THEN Append(hist[id], "failed") ELSE hist[id]]
    /\ result' = Result("recover", NULL, NULL, <<>>, Cardinality(recovered))
    /\ UNCHANGED <<seq, clock, alive, pc, txrow, txver, txstart, trail,
                   claimers, claimed_by>>
    /\ UNCHANGED otherVars

\* ---------------------------------------------------------------- test workers
\* worker.rs test_worker_snapshot_generate (and its three siblings): the worker
\* inserts a pending row of its own in one transaction,
TestSnapshotId == "test-snapshot-dynamic"

test_worker_insert ==
    \E p \in alive :
        /\ pc[p] = "idle"
        /\ pc' = [pc EXCEPT ![p] = "test_inserted"]
        /\ seq < MaxId
        /\ seq' = seq + 1
        /\ LET r == NewRow("snapshot_generate", TestSnapshotId, NullText, clock) IN
           /\ CheckConstraints(r)
           /\ work_queue' = work_queue @@ ((seq + 1) :> r)
           /\ hist' = hist @@ ((seq + 1) :> <<"pending">>)
           /\ claimers' = claimers @@ ((seq + 1) :> {})
           /\ claimed_by' = claimed_by @@ ((seq + 1) :> {})
        /\ result' = NoResult
        /\ UNCHANGED <<clock, alive, txrow, txver, txstart, trail>>
        /\ UNCHANGED otherVars

\* and in a second transaction runs
\* UPDATE ... SET status = 'complete', completed_at = now(), worker_pid = pg_backend_pid()
\* WHERE snapshot_id = 'test-snapshot-dynamic' AND status = 'pending'
TestWorkerMatches(r) == r.snapshot_id = TestSnapshotId /\ r.status = "pending"

test_worker_update ==
    \E p \in alive :
        LET matched == {id \in Rows : TestWorkerMatches(work_queue[id])} IN
        /\ pc[p] = "test_inserted"
        /\ \A id \in matched : ~Locked(id)
        /\ work_queue' = [id \in Rows |->
                            IF id \in matched
                            THEN [MarkComplete(work_queue[id], clock)
                                    EXCEPT !.worker_pid = p]
                            ELSE work_queue[id]]
        /\ hist' = [id \in Rows |->
                      IF id \in matched THEN Append(hist[id], "complete") ELSE hist[id]]
        /\ pc' = [pc EXCEPT ![p] = "test_done"]
        /\ result' = NoResult
        /\ UNCHANGED <<seq, clock, alive, txrow, txver, txstart, trail, claimers,
                       claimed_by>>
        /\ UNCHANGED otherVars

\* ---------------------------------------------------------------- time
Tick ==
    /\ clock < MaxClock
    /\ clock' = clock + 1
    /\ result' = NoResult
    /\ UNCHANGED <<work_queue, seq, alive, pc, txrow, txver, txstart, trail,
                   hist, claimers, claimed_by>>
    /\ UNCHANGED otherVars

Next ==
    \/ queue_snapshot_generate
    \/ claim_next_work_begin
    \/ claim_next_work_return
    \/ worker_claim
    \/ worker_complete
    \/ worker_commit
    \/ process_exit
    \/ complete_work_entry
    \/ fail_work_entry
    \/ cancel_work_entry
    \/ recover_abandoned_work
    \/ test_worker_insert
    \/ test_worker_update
    \/ Tick

Spec == Init /\ [][Next]_vars

\* The enqueue calls alone, over every combination of their inputs.
NextEnqueue ==
    \/ queue_snapshot_generate
    \/ queue_snapshot_apply
    \/ queue_bidirectional_merge
    \/ insert_work_queue
    \/ cancel_work_entry
    \/ Tick

SpecEnqueue == Init /\ [][NextEnqueue]_vars

\* ---------------------------------------------------------------- progress
\* progress.rs OPERATION_PROGRESS: one record in shared memory behind a
\* PgLwLock.  exclusive() is granted when nobody holds the lock; share() is
\* granted when nobody holds it exclusively.  A reader copies the record in
\* one step, so shared holders never appear in a state.
CanExclusive == lwlock = NULL

\* a reader that copies the record without taking the lock
CanShare_Unlocked == TRUE

CanShare == lwlock = NULL

\* worker.rs 431-437: WorkOperation::from_str(&operation) mapped to OperationType
OperationTypeOf(operation) ==
    IF operation \in Operations THEN operation ELSE "none"

\* worker.rs 438: snapshot_id.as_deref().unwrap_or("unknown")
OperationIdOf(snapshot_id) ==
    IF snapshot_id = NullText THEN "unknown" ELSE snapshot_id

\* OperationProgress::reset
ProgressReset(r) == DefaultProgress

\* OperationProgress::start after its reset(), and worker.rs 440
ProgressStartFields(r, operation_type, operation_id, work_queue_id) ==
    [r EXCEPT !.active = TRUE, !.operation_type = operation_type,
              !.operation_id = operation_id, !.work_queue_id = work_queue_id,
              !.phase = "schema"]

\* OperationProgress::start: the totals and started_at, the seconds since the
\* epoch at the call
ProgressStartTotals(r, tables_total, bytes_total, rows_total, now) ==
    [r EXCEPT !.tables_total = tables_total, !.bytes_total = bytes_total,
              !.rows_total = rows_total, !.started_at = now]

\* OperationProgress::complete: phase, overall_percent, eta_seconds ...
ProgressCompletePhase_KeepPercent(r) ==
    [r EXCEPT !.phase = "complete", !.eta_seconds = 0]

ProgressCompletePhase(r) ==
    [r EXCEPT !.phase = "complete", !.overall_percent = 100, !.eta_seconds = 0]

\* ... and then active
ProgressCompleteInactive(r) == [r EXCEPT !.active = FALSE]

\* what the progress statements leave alone
ProgressFrame ==
    UNCHANGED <<work_queue, seq, clock, alive, txrow, txver, txstart, trail,
                hist, claimers, claimed_by, cancelVars, quiesceVars, mergeVars,
                recordVars, restVars>>

\* steep_repl_database_worker_main: the claim of one loop iteration
database_worker_claim == \E p \in Pids : SelectAndMarkRunning(p, "database_worker")

\* worker.rs 430 and the reset() that opens progress.start()
database_worker_progress_start ==
    \E p \in Pids :
        /\ p \in alive
        /\ pc[p] = "database_worker_running"
        /\ CanExclusive
        /\ lwlock' = p
        /\ progress' = ProgressReset(progress)
        /\ pc' = [pc EXCEPT ![p] = "database_worker_start"]
        /\ result' = NoResult
        /\ UNCHANGED <<stable, snap>>
        /\ ProgressFrame

\* the rest of progress.start(), worker.rs 440, and the end of the block
database_worker_progress_started ==
    \E p \in Pids :
        /\ p \in alive
        /\ pc[p] = "database_worker_start"
        /\ lwlock = p
        /\ progress' = ProgressStartTotals(
                            ProgressStartFields(progress,
                                OperationTypeOf(txver[p].operation),
                                OperationIdOf(txver[p].snapshot_id), txrow[p]),
                            0, 0, 0, clock)
        /\ stable' = progress'
        /\ lwlock' = NULL
        /\ pc' = [pc EXCEPT ![p] = "database_worker_started"]
        /\ result' = NoResult
        /\ UNCHANGED snap
        /\ ProgressFrame

\* worker.rs 456-457: progress.complete() under a second exclusive lock
database_worker_progress_complete ==
    \E p \in Pids :
        /\ p \in alive
        /\ pc[p] = "database_worker_started"
        /\ CanExclusive
        /\ lwlock' = p
        /\ progress' = ProgressCompletePhase(progress)
        /\ pc' = [pc EXCEPT ![p] = "database_worker_completing"]
        /\ result' = NoResult
        /\ UNCHANGED <<stable, snap>>
        /\ ProgressFrame

database_worker_progress_completed ==
    \E p \in Pids :
        /\ p \in alive
        /\ pc[p] = "database_worker_completing"
        /\ lwlock = p
        /\ progress' = ProgressCompleteInactive(progress)
        /\ stable' = progress'
        /\ lwlock' = NULL
        /\ pc' = [pc EXCEPT ![p] = "database_worker_progress_done"]
        /\ result' = NoResult
        /\ UNCHANGED snap
        /\ ProgressFrame

\* worker.rs 473-478: UPDATE ... SET status = 'complete' WHERE id = {}
database_worker_complete ==
    \E p \in Pids :
        /\ p \in alive
        /\ pc[p] = "database_worker_progress_done"
        /\ txver' = [txver EXCEPT ![p] = MarkComplete(@, txstart[p])]
        /\ trail' = [trail EXCEPT ![p] = Append(@, "complete")]
        /\ pc' = [pc EXCEPT ![p] = "database_worker_complete"]
        /\ result' = NoResult
        /\ UNCHANGED <<work_queue, seq, clock, alive, txrow, txstart, hist,
                       claimers, claimed_by>>
        /\ UNCHANGED otherVars

database_worker_commit ==
    \E p \in Pids :
        /\ pc[p] = "database_worker_complete"
        /\ CommitTx(p, "database_worker", "processed")

\* progress.rs get_progress_snapshot: a copy of the record under share()
get_progress_snapshot ==
    /\ CanShare
    /\ snap' = [seen |-> progress, committed |-> stable]
    /\ UNCHANGED <<progress, lwlock, stable>>
    /\ UNCHANGED <<queueVars, cancelVars, quiesceVars, mergeVars, recordVars, restVars>>

NextProgress ==
    \/ queue_snapshot_generate
    \/ database_worker_claim
    \/ database_worker_progress_start
    \/ database_worker_progress_started
    \/ database_worker_progress_complete
    \/ database_worker_progress_completed
    \/ database_worker_complete
    \/ database_worker_commit
    \/ get_progress_snapshot

SpecProgress == Init /\ [][NextProgress]_vars

\* ---------------------------------------------------------------- progress API
\* progress.rs 572-640: start_progress, update_progress, complete_progress,
\* fail_progress and reset_progress each take OPERATION_PROGRESS.exclusive()
\* and call one method of the record.  None of them looks at `active`.

\* inputs of the calls.  The totals and counters drawn make every quotient the
\* record stores a value that f64 and f32 hold exactly.
TablesTotalInputs == {0, 2}
BytesTotalInputs == {0, 6}
RowsTotalInputs == {0, 2}
PhaseInputs == {"data", "indexes"}
TablesCompletedInputs == {0, 1}
BytesProcessedInputs == {0, 3, 12}
RowsProcessedInputs == {1, 2}
TableInputs == {"public.users"}
FailInputs == {"Test error: connection timeout"}

\* (done as f64 / total as f64 * 100.0) as f32
Percent(done, total) == (done * 100) \div total

\* OperationProgress::update 236-243: the first positive total decides; with
\* no positive total the field is not assigned
UpdatePercent_RowsFirst(r) ==
    IF r.rows_total > 0 THEN Percent(r.rows_processed, r.rows_total)
    ELSE IF r.bytes_total > 0 THEN Percent(r.bytes_processed, r.bytes_total)
    ELSE IF r.tables_total > 0 THEN Percent(r.tables_completed, r.tables_total)
    ELSE r.overall_percent

UpdatePercent(r) ==
    IF r.bytes_total > 0 THEN Percent(r.bytes_processed, r.bytes_total)
    ELSE IF r.rows_total > 0 THEN Percent(r.rows_processed, r.rows_total)
    ELSE IF r.tables_total > 0 THEN Percent(r.tables_completed, r.tables_total)
    ELSE r.overall_percent

\* (x as f64 / y as f64) as i32: the quotient, truncated toward zero
TruncDiv(x, y) == IF x >= 0 THEN x \div y ELSE -((-x) \div y)

\* (remaining_bytes as f64 / throughput_bytes_sec as f64) as i32
Eta(remaining_bytes, throughput) ==
    TruncDiv(remaining_bytes * throughput.secs, throughput.bytes)

\* OperationProgress::update 245-257: throughput and ETA are assigned only when
\* a whole second has passed and bytes were processed
UpdateThroughput(r, now) ==
    IF now - r.started_at > 0 /\ r.bytes_processed > 0
    THEN [r EXCEPT !.throughput_bytes_sec =
                       Throughput(r.bytes_processed, now - r.started_at),
                   !.eta_seconds =
                       Eta(r.bytes_total - r.bytes_processed,
                           Throughput(r.bytes_processed, now - r.started_at))]
    ELSE r

\* OperationProgress::update 230-234: the phase and the counters
UpdateCounters(r, phase, tables_completed, bytes_processed, rows_processed, current_table) ==
    [r EXCEPT !.phase = phase, !.tables_completed = tables_completed,
              !.bytes_processed = bytes_processed,
              !.rows_processed = rows_processed,
              !.current_table = current_table]

\* OperationProgress::update
ProgressUpdate(r, phase, tables_completed, bytes_processed, rows_processed, current_table, now) ==
    LET counted == UpdateCounters(r, phase, tables_completed, bytes_processed,
                                  rows_processed, current_table)
        rated == [counted EXCEPT !.overall_percent = UpdatePercent(counted)]
    IN  UpdateThroughput(rated, now)

\* OperationProgress::start
ProgressStart(r, operation_type, operation_id, work_queue_id, tables_total, bytes_total, rows_total, now) ==
    ProgressStartTotals(
        ProgressStartFields(ProgressReset(r), operation_type, operation_id,
                            work_queue_id),
        tables_total, bytes_total, rows_total, now)

\* OperationProgress::complete
ProgressComplete(r) == ProgressCompleteInactive(ProgressCompletePhase(r))

\* OperationProgress::fail
ProgressFail(r, error) ==
    [r EXCEPT !.phase = "failed", !.error_message = error, !.active = FALSE]

\* one call of the API: the record is written under the exclusive lock, which
\* is free again when the call returns
RecordCall(op, record) ==
    /\ CanExclusive
    /\ progress' = record
    /\ stable' = record
    /\ pcall' = PCall(op, clock, pcall.op)
    /\ UNCHANGED <<lwlock, snap>>
    /\ UNCHANGED <<queueVars, cancelVars, quiesceVars, mergeVars, restVars>>

start_progress ==
    \E tables_total \in TablesTotalInputs, bytes_total \in BytesTotalInputs,
       rows_total \in RowsTotalInputs :
        RecordCall("start",
                   ProgressStart(progress, "snapshot_apply", "test_is_active", 1,
                                 tables_total, bytes_total, rows_total, clock))

update_progress ==
    \E phase \in PhaseInputs, tables_completed \in TablesCompletedInputs,
       bytes_processed \in BytesProcessedInputs,
       rows_processed \in RowsProcessedInputs, current_table \in TableInputs :
        RecordCall("update",
                   ProgressUpdate(progress, phase, tables_completed,
                                  bytes_processed, rows_processed, current_table,
                                  clock))

complete_progress == RecordCall("complete", ProgressComplete(progress))

fail_progress ==
    \E error \in FailInputs : RecordCall("fail", ProgressFail(progress, error))

reset_progress == RecordCall("reset", ProgressReset(progress))

NextRecord ==
    \/ start_progress
    \/ update_progress
    \/ complete_progress
    \/ fail_progress
    \/ reset_progress
    \/ Tick

SpecRecord == Init /\ [][NextRecord]_vars


\* ---------------------------------------------------------------- strings
\* A &str is its UTF-8 bytes.  The characters drawn are 'x', one byte, and
\* U+00E9, two bytes.
LetterX == <<120>>
LetterEAcute == <<195, 169>>
\* char::REPLACEMENT_CHARACTER, U+FFFD
REPLACEMENT_CHARACTER == <<239, 191, 189>>

IsContinuation(b) == b >= 128 /\ b < 192
IsLead2(b) == b >= 194 /\ b < 224

\* the byte at i belongs to a whole one- or two-byte character
Whole(bytes, i) ==
    \/ bytes[i] < 128
    \/ IsLead2(bytes[i]) /\ i < Len(bytes) /\ IsContinuation(bytes[i + 1])
    \/ IsContinuation(bytes[i]) /\ i > 1 /\ IsLead2(bytes[i - 1])

\* String::from_utf8_lossy on bytes lo..hi made of one- and two-byte characters
\* and their fragments: every byte that does not belong to a whole character
\* becomes U+FFFD
RECURSIVE FromUtf8LossyRange(_, _, _)
FromUtf8LossyRange(bytes, lo, hi) ==
    IF lo > hi THEN <<>>
    ELSE IF lo = hi
         THEN IF Whole(bytes, lo) THEN <<bytes[lo]>> ELSE REPLACEMENT_CHARACTER
    ELSE FromUtf8LossyRange(bytes, lo, (lo + hi) \div 2)
             \o FromUtf8LossyRange(bytes, (lo + hi) \div 2 + 1, hi)

FromUtf8Lossy(bytes) == FromUtf8LossyRange(bytes, 1, Len(bytes))

\* bytes.len().min(N - 1)
CopyLen(bytes, n) == IF Len(bytes) < n - 1 THEN Len(bytes) ELSE n - 1

\* set_operation_id, set_error_message: copy, then the terminator; the bytes
\* behind the terminator stay
SetBytes_NoBound(array, str) ==
    [i \in 1..Len(array) |->
        IF i <= Len(str) THEN str[i]
        ELSE IF i = Len(str) + 1 THEN 0
        ELSE array[i]]

SetBytes(array, str) ==
    [i \in 1..Len(array) |->
        IF i <= CopyLen(str, Len(array)) THEN str[i]
        ELSE IF i = CopyLen(str, Len(array)) + 1 THEN 0
        ELSE array[i]]

\* set_current_table: the same, and zeroes behind the terminator
SetBytesZeroRest(array, str) ==
    [i \in 1..Len(array) |->
        IF i <= CopyLen(str, Len(array)) THEN str[i] ELSE 0]

\* iter().position(|&c| c == 0).unwrap_or(N)
TerminatorLen(array) ==
    IF \E i \in 1..Len(array) : array[i] = 0
    THEN (CHOOSE i \in 1..Len(array) :
              array[i] = 0 /\ \A j \in 1..(i - 1) : array[j] # 0) - 1
    ELSE Len(array)

\* get_operation_id, get_current_table, get_error_message
GetString(array) == FromUtf8Lossy(SubSeq(array, 1, TerminatorLen(array)))

\* n times the one-byte character c
Repeat(c, n) == [i \in 1..n |-> c[1]]

\* strings passed to a field of n bytes: empty, short, of n - 1 bytes ending
\* in a one-byte or a two-byte character, and longer ones with a one-byte or
\* a two-byte character across the bound
StringInputs(n) ==
    { <<>>, Repeat(LetterX, 3), Repeat(LetterX, n - 1),
      Repeat(LetterX, n - 3) \o LetterEAcute,
      Repeat(LetterX, n), Repeat(LetterX, n + 36),
      Repeat(LetterX, n - 2) \o LetterEAcute \o LetterX }

StringFrame ==
    UNCHANGED <<queueVars, cancelVars, progressVars, quiesceVars, mergeVars, recordVars,
                fingerprintVars, snapshotVars, coordinatorVars>>

\* start(): reset() and set_operation_id
set_operation_id ==
    \E id \in StringInputs(OPERATION_ID_LEN) :
        /\ strings' = [DefaultStrings EXCEPT
                           !.operation_id = SetBytes(DefaultStrings.operation_id, id)]
        /\ scall' = [field |-> "operation_id", input |-> id]
        /\ StringFrame

\* update(): set_current_table
set_current_table ==
    \E table \in StringInputs(TABLE_NAME_LEN) :
        /\ strings' = [strings EXCEPT !.current_table = SetBytesZeroRest(@, table)]
        /\ scall' = [field |-> "current_table", input |-> table]
        /\ StringFrame

\* fail(): set_error_message
set_error_message ==
    \E msg \in StringInputs(ERROR_MSG_LEN) :
        /\ strings' = [strings EXCEPT !.error_message = SetBytes(@, msg)]
        /\ scall' = [field |-> "error_message", input |-> msg]
        /\ StringFrame

NextStrings ==
    \/ set_operation_id
    \/ set_current_table
    \/ set_error_message

SpecStrings == Init /\ [][NextStrings]_vars

\* ---------------------------------------------------------------- fingerprints
\* information_schema.columns.data_type: every array type reads ARRAY
DataType(type) == IF type \in {"integer[]", "text[]"} THEN "ARRAY" ELSE type

\* the rows of information_schema.columns for one table
InformationSchemaColumns(cols) ==
    [i \in 1..Len(cols) |->
        [column_name |-> cols[i].column_name, data_type |-> DataType(cols[i].type),
         column_default |-> cols[i].column_default, is_nullable |-> cols[i].is_nullable,
         ordinal_position |-> i]]

\* coalesce(a, b) on text
CoalesceText(a, b) == IF a # NullText THEN a ELSE b

\* column_name || ':' || data_type || ':' || coalesce(column_default, 'NULL') || ':' || is_nullable
ColumnText(c) ==
    c.column_name \o ":" \o c.data_type \o ":" \o CoalesceText(c.column_default, "NULL")
        \o ":" \o c.is_nullable

\* string_agg(..., '|' ORDER BY ordinal_position) over at least one row
RECURSIVE StringAgg(_)
StringAgg(rows) ==
    IF Len(rows) = 1 THEN ColumnText(rows[1])
    ELSE StringAgg(SubSeq(rows, 1, Len(rows) - 1)) \o "|" \o ColumnText(rows[Len(rows)])

\* encode(sha256(text::bytea), 'hex'): a digest that differs whenever the
\* text differs
Sha256Hex(text) == <<text>>

\* steep_repl.compute_fingerprint(p_schema, p_table): NULL when the table has
\* no column
ComputeFingerprint(cols) ==
    IF cols = <<>> THEN NullDigest
    ELSE Sha256Hex(StringAgg(InformationSchemaColumns(cols)))

\* pg_tables / information_schema.tables without the system schemas
UserTables(side) == {t \in FpTables : catalog[side][t] # <<>>}

\* the unique indexes of steep_repl.schema_fingerprints, by their columns
UniqueIndexes == {{"node_id", "table_schema", "table_name"}}

\* ON CONFLICT (table_schema, table_name)
ConflictTarget == {"table_schema", "table_name"}

\* the columns the INSERT of capture_fingerprint names
InsertColumns ==
    {"table_schema", "table_name", "fingerprint", "column_count", "column_definitions"}

\* the NOT NULL columns of steep_repl.schema_fingerprints that have no default
RequiredColumns == {"node_id", "table_schema", "table_name", "fingerprint", "column_count"}

FingerprintRow(table, cols) ==
    [node_id |-> NullText, table_schema |-> "public", table_name |-> table,
     fingerprint |-> ComputeFingerprint(cols), column_count |-> Len(cols),
     column_definitions |-> InformationSchemaColumns(cols)]

\* INSERT ... ON CONFLICT (table_schema, table_name) DO UPDATE SET ...
Upsert(store, row) ==
    {r \in store : ~(r.table_schema = row.table_schema /\ r.table_name = row.table_name)}
        \cup {row}

\* what one call of capture_fingerprint does to the store: the arbiter index
\* is inferred when the statement is planned, the row (one, by GROUP BY, when
\* the table has columns) is checked when it is inserted
CaptureFingerprint(store, table, cols) ==
    IF ConflictTarget \notin UniqueIndexes
    THEN [ret |-> "ERROR: no unique or exclusion constraint matching the ON CONFLICT specification",
          store |-> store]
    ELSE IF cols = <<>>
    THEN [ret |-> "no row", store |-> store]
    ELSE IF ~(RequiredColumns \subseteq InsertColumns)
    THEN [ret |-> "ERROR: null value in column node_id violates not-null constraint",
          store |-> store]
    ELSE [ret |-> "row", store |-> Upsert(store, FingerprintRow(table, cols))]

IsError(ret) == ret \notin {"row", "no row", "ok"}

\* capture_all_fingerprints(): the loop over the user tables; the first error
\* ends the function and undoes what it did
RECURSIVE CaptureAll(_, _)
CaptureAll(store, tables) ==
    IF tables = {} THEN [ret |-> "ok", store |-> store, count |-> 0]
    ELSE LET t == CHOOSE x \in tables : TRUE
             one == CaptureFingerprint(store, t, catalog["local"][t])
             rest == CaptureAll(one.store, tables \ {t})
         IN  IF IsError(one.ret) THEN [ret |-> one.ret, store |-> store, count |-> 0]
             ELSE IF IsError(rest.ret) THEN [ret |-> rest.ret, store |-> store, count |-> 0]
             ELSE [ret |-> "ok", store |-> rest.store, count |-> rest.count + 1]

FResult(op, peer, table, ret, digest, rows) ==
    [op |-> op, peer |-> peer, table |-> table, ret |-> ret, digest |-> digest, rows |-> rows]

FingerprintFrame ==
    UNCHANGED <<queueVars, cancelVars, progressVars, quiesceVars, mergeVars, recordVars,
                stringVars, snapshotVars, coordinatorVars>>

\* CREATE TABLE, ALTER TABLE or DROP TABLE on one of the two nodes
schema_change ==
    \E side \in Sides, table \in FpTables, cols \in ColumnLists :
        /\ catalog[side][table] # cols
        /\ catalog' = [catalog EXCEPT ![side][table] = cols]
        /\ fresult' = FResult("schema_change", side, table, "ok", NullDigest, {})
        /\ UNCHANGED schema_fingerprints
        /\ FingerprintFrame

compute_fingerprint ==
    \E table \in FpTables :
        /\ fresult' = FResult("compute_fingerprint", "local", table, "ok",
                              ComputeFingerprint(catalog["local"][table]), {})
        /\ UNCHANGED <<catalog, schema_fingerprints>>
        /\ FingerprintFrame

capture_fingerprint ==
    \E table \in FpTables :
        LET done == CaptureFingerprint(schema_fingerprints, table, catalog["local"][table])
        IN  /\ schema_fingerprints' = done.store
            /\ fresult' = FResult("capture_fingerprint", "local", table, done.ret,
                                  NullDigest, {})
            /\ UNCHANGED catalog
            /\ FingerprintFrame

capture_all_fingerprints ==
    LET done == CaptureAll(schema_fingerprints, UserTables("local"))
    IN  /\ schema_fingerprints' = done.store
        /\ fresult' = FResult("capture_all_fingerprints", "local", NullText, done.ret,
                              NullDigest, {})
        /\ UNCHANGED catalog
        /\ FingerprintFrame

\* the dblink query of compare_fingerprints: the peer's user tables with
\* their fingerprints computed there
RemoteFps ==
    {[table_schema |-> "public", table_name |-> t,
      fingerprint |-> ComputeFingerprint(catalog["remote"][t]),
      column_count |-> Len(catalog["remote"][t])] : t \in UserTables("remote")}

NullFp == [table_schema |-> NullText, table_name |-> NullText, fingerprint |-> NullDigest, column_count |-> NULL]

\* FROM steep_repl.schema_fingerprints l FULL OUTER JOIN _remote_fps r
\*      ON l.table_schema = r.table_schema AND l.table_name = r.table_name
FpJoin(l_rows, r_rows) ==
    LET On(l, r) == l.table_schema = r.table_schema /\ l.table_name = r.table_name
    IN  {<<l, r>> \in l_rows \X r_rows : On(l, r)}
        \cup {<<l, NullFp>> : l \in {x \in l_rows : \A r \in r_rows : ~On(x, r)}}
        \cup {<<NullFp, r>> : r \in {x \in r_rows : \A l \in l_rows : ~On(l, x)}}

\* CASE WHEN l.fingerprint IS NULL ... WHEN r.fingerprint IS NULL ...
\*      WHEN l.fingerprint = r.fingerprint ... ELSE 'MISMATCH' END
FpStatus(l, r) ==
    IF l.fingerprint = NullDigest THEN "REMOTE_ONLY"
    ELSE IF r.fingerprint = NullDigest THEN "LOCAL_ONLY"
    ELSE IF l.fingerprint = r.fingerprint THEN "MATCH"
    ELSE "MISMATCH"

\* the SELECT list of compare_fingerprints over the join
CompareRows(store) ==
    {[table_schema |-> CoalesceText(pair[1].table_schema, pair[2].table_schema),
      table_name |-> CoalesceText(pair[1].table_name, pair[2].table_name),
      status |-> FpStatus(pair[1], pair[2])] :
        pair \in FpJoin({[table_schema |-> r.table_schema, table_name |-> r.table_name,
                          fingerprint |-> r.fingerprint, column_count |-> r.column_count] :
                             r \in store},
                        RemoteFps)}

compare_fingerprints ==
    \E peer \in PeerInputs :
        LET done == CaptureAll(schema_fingerprints, UserTables("local"))
        IN  /\ IF peer \notin Nodes
               THEN /\ fresult' = FResult("compare_fingerprints", peer, NullText,
                                          "ERROR: Peer node not found in steep_repl.nodes",
                                          NullDigest, {})
                    /\ UNCHANGED schema_fingerprints
               ELSE IF IsError(done.ret)
               THEN /\ fresult' = FResult("compare_fingerprints", peer, NullText, done.ret,
                                          NullDigest, {})
                    /\ UNCHANGED schema_fingerprints
               ELSE /\ fresult' = FResult("compare_fingerprints", peer, NullText, "ok",
                                          NullDigest, CompareRows(done.store))
                    /\ schema_fingerprints' = done.store
            /\ UNCHANGED catalog
            /\ FingerprintFrame

NullColumn == [column_name |-> NullText, data_type |-> NullText, column_default |-> NullText, is_nullable |-> NullText, ordinal_position |-> NULL]

Range(s) == {s[i] : i \in DOMAIN s}

\* FROM local_cols l FULL OUTER JOIN _remote_cols r ON l.column_name = r.column_name
ColumnJoin(l_cols, r_cols) ==
    {<<l, r>> \in l_cols \X r_cols : l.column_name = r.column_name}
    \cup {<<l, NullColumn>> : l \in {x \in l_cols : \A r \in r_cols : x.column_name # r.column_name}}
    \cup {<<NullColumn, r>> : r \in {x \in r_cols : \A l \in l_cols : l.column_name # x.column_name}}

\* the kinds of difference between the two definitions of a column that both
\* nodes have
Differences(l, r) ==
    (IF l.data_type # r.data_type THEN {"type_change"} ELSE {})
    \cup (IF CoalesceText(l.column_default, "") # CoalesceText(r.column_default, "")
          THEN {"default_change"} ELSE {})
    \cup (IF l.is_nullable # r.is_nullable THEN {"nullable_change"} ELSE {})

\* a CASE that looks at nullability before the data type
DifferenceType_NullableFirst(l, r) ==
    IF l.column_name = NullText THEN "missing_local"
    ELSE IF r.column_name = NullText THEN "missing_remote"
    ELSE IF l.is_nullable # r.is_nullable THEN "nullable_change"
    ELSE IF l.data_type # r.data_type THEN "type_change"
    ELSE IF CoalesceText(l.column_default, "") # CoalesceText(r.column_default, "")
    THEN "default_change"
    ELSE "match"

\* the CASE of get_column_diff that names the difference
DifferenceType(l, r) ==
    IF l.column_name = NullText THEN "missing_local"
    ELSE IF r.column_name = NullText THEN "missing_remote"
    ELSE IF l.data_type # r.data_type THEN "type_change"
    ELSE IF CoalesceText(l.column_default, "") # CoalesceText(r.column_default, "")
    THEN "default_change"
    ELSE IF l.is_nullable # r.is_nullable THEN "nullable_change"
    ELSE "match"

\* format('%s %s %s %s', column_name, data_type, 'DEFAULT ' || column_default, 'NOT NULL')
Definition(c) ==
    IF c.column_name = NullText THEN ""
    ELSE c.column_name \o " " \o c.data_type \o " "
         \o (IF c.column_default # NullText THEN "DEFAULT " \o c.column_default ELSE "")
         \o " " \o (IF c.is_nullable = "NO" THEN "NOT NULL" ELSE "")

\* the RETURN QUERY of get_column_diff: its WHERE and its SELECT list
ColumnDiff(l_cols, r_cols) ==
    {[column_name |-> CoalesceText(pair[1].column_name, pair[2].column_name),
      difference_type |-> DifferenceType(pair[1], pair[2]),
      local_definition |-> Definition(pair[1]),
      remote_definition |-> Definition(pair[2])] :
        pair \in {p \in ColumnJoin(l_cols, r_cols) :
                     \/ p[1].column_name = NullText
                     \/ p[2].column_name = NullText
                     \/ Differences(p[1], p[2]) # {}}}

get_column_diff ==
    \E peer \in PeerInputs, table \in FpTables :
        /\ IF peer \notin Nodes
           THEN fresult' = FResult("get_column_diff", peer, table,
                                   "ERROR: Peer node not found in steep_repl.nodes",
                                   NullDigest, {})
           ELSE fresult' = FResult("get_column_diff", peer, table, "ok", NullDigest,
                                   ColumnDiff(Range(InformationSchemaColumns(catalog["local"][table])),
                                              Range(InformationSchemaColumns(catalog["remote"][table]))))
        /\ UNCHANGED <<catalog, schema_fingerprints>>
        /\ FingerprintFrame

NextFingerprint ==
    \/ schema_change
    \/ compute_fingerprint
    \/ capture_fingerprint
    \/ capture_all_fingerprints
    \/ compare_fingerprints
    \/ get_column_diff

SpecFingerprint == Init /\ [][NextFingerprint]_vars

\* ---------------------------------------------------------------- snapshots
\* CREATE TABLE steep_repl.snapshots: the CHECK constraints on status and phase
snapshots_status_check(r) ==
    r.status \in {"pending", "generating", "complete", "applying", "applied", "failed",
                  "cancelled", "expired"}

snapshots_phase_check(r) ==
    r.phase \in {"idle", "schema", "data", "indexes", "constraints", "sequences", "verify",
                 "finalizing"}

\* start_snapshot: INSERT INTO steep_repl.snapshots (..., status, phase)
\* VALUES (..., 'pending', 'idle')
NewSnapshot(now) ==
    [status |-> "pending", phase |-> "idle", overall_percent |-> 0,
     created_at |-> now, started_at |-> NULL, completed_at |-> NULL]

\* worker.rs: UPDATE steep_repl.snapshots SET status = 'generating', phase = 'schema', ...
SnapshotGenerating(r, now) ==
    [r EXCEPT !.status = "generating", !.phase = "schema", !.started_at = now]

\* worker.rs: UPDATE steep_repl.snapshots SET status = 'complete', phase = 'complete', ...
SnapshotComplete(r, now) ==
    [r EXCEPT !.status = "complete", !.phase = "complete", !.overall_percent = 100,
              !.completed_at = now]

\* cancel_snapshot: UPDATE steep_repl.snapshots SET status = 'cancelled',
\* completed_at = now() WHERE ... AND status IN ('pending', 'generating')
SnapshotCancelled(r, now) ==
    IF r.status \in {"pending", "generating"}
    THEN [r EXCEPT !.status = "cancelled", !.completed_at = now]
    ELSE r

SResult(op, snapshot_id, id, ret) ==
    [op |-> op, snapshot_id |-> snapshot_id, id |-> id, ret |-> ret]

\* what the snapshot transactions leave alone
SnapshotFrame ==
    UNCHANGED <<alive, pc, txrow, txver, txstart, trail, hist, claimers, claimed_by, result,
                cancelVars, lwlock, snap, quiesceVars, mergeVars, recordVars, stringVars,
                fingerprintVars, presult, coordinatorVars>>

\* a committed INSERT, UPDATE or DELETE on the queue by a transaction that
\* holds no other row
QueueWrite(queue) == work_queue' = queue

\* steep_repl.start_snapshot: the snapshot record and its work item, in the
\* caller's transaction
start_snapshot ==
    \E s \in SnapshotIds :
        /\ snapshots[s] = NoSnapshotRow
        /\ seq < MaxId
        /\ snapshots' = [snapshots EXCEPT ![s] = NewSnapshot(clock)]
        /\ seq' = seq + 1
        /\ QueueWrite(work_queue @@ ((seq + 1) :> NewRow("snapshot_generate", s, NullText, clock)))
        /\ sresult' = SResult("start_snapshot", s, seq + 1, "ok")
        /\ UNCHANGED <<clock, progress, stable>>
        /\ SnapshotFrame

\* SELECT id FROM steep_repl.work_queue WHERE snapshot_id = ... AND status IN
\* ('pending', 'running') ORDER BY created_at DESC LIMIT 1
LatestOpenWork(s) ==
    LET open == {id \in Rows : /\ work_queue[id].snapshot_id = s
                               /\ work_queue[id].status \in {"pending", "running"}}
    IN  {id \in open : \A o \in open : work_queue[o].created_at <= work_queue[id].created_at}

\* steep_repl.cancel_snapshot
cancel_snapshot ==
    \E s \in SnapshotIds :
        /\ IF LatestOpenWork(s) = {}
           THEN /\ sresult' = SResult("cancel_snapshot", s, NULL, "false")
                /\ UNCHANGED <<work_queue, snapshots>>
           ELSE \E id \in LatestOpenWork(s) :
                    /\ QueueWrite([work_queue EXCEPT ![id] = MarkCancelled(@, clock)])
                    /\ snapshots' = [snapshots EXCEPT ![s] =
                                        IF @ = NoSnapshotRow THEN @ ELSE SnapshotCancelled(@, clock)]
                    /\ sresult' = SResult("cancel_snapshot", s, id, "true")
        /\ UNCHANGED <<seq, clock, progress, stable>>
        /\ SnapshotFrame

\* steep_repl.cancel_work(p_id)
cancel_work ==
    \E id \in Rows :
        /\ IF work_queue[id].status \in {"pending", "running"}
           THEN /\ QueueWrite([work_queue EXCEPT ![id] = MarkCancelled(@, clock)])
                /\ sresult' = SResult("cancel_work", NullText, id, "true")
           ELSE /\ UNCHANGED work_queue
                /\ sresult' = SResult("cancel_work", NullText, id, "false")
        /\ UNCHANGED <<seq, clock, snapshots, progress, stable>>
        /\ SnapshotFrame

\* the rows ORDER BY created_at LIMIT 1 may return among the pending ones
OldestPending ==
    {id \in Rows : /\ work_queue[id].status = "pending"
                   /\ \A o \in Rows : work_queue[o].status = "pending" =>
                          work_queue[id].created_at <= work_queue[o].created_at}

\* steep_repl.claim_work() called by a session
claim_work ==
    \E p \in Pids :
        /\ IF OldestPending = {}
           THEN /\ UNCHANGED work_queue
                /\ sresult' = SResult("claim_work", NullText, NULL, "NULL")
           ELSE \E id \in OldestPending :
                    /\ QueueWrite([work_queue EXCEPT ![id] = MarkRunning(@, p, clock)])
                    /\ sresult' = SResult("claim_work", NullText, id, "row")
        /\ UNCHANGED <<seq, clock, snapshots, progress, stable>>
        /\ SnapshotFrame

\* steep_repl.complete_work(p_id)
complete_work ==
    \E id \in Rows :
        /\ work_queue[id].status = "running"
        /\ QueueWrite([work_queue EXCEPT ![id] = MarkComplete(@, clock)])
        /\ sresult' = SResult("complete_work", NullText, id, "ok")
        /\ UNCHANGED <<seq, clock, snapshots, progress, stable>>
        /\ SnapshotFrame

\* steep_repl.fail_work(p_id, p_error)
fail_work ==
    \E id \in Rows, error \in ErrorInputs :
        /\ work_queue[id].status = "running"
        /\ QueueWrite([work_queue EXCEPT ![id] = MarkFailed(@, clock, error)])
        /\ sresult' = SResult("fail_work", NullText, id, "ok")
        /\ UNCHANGED <<seq, clock, snapshots, progress, stable>>
        /\ SnapshotFrame

\* the record in shared memory after progress.start(..., 0, 0, 0) and
\* progress.complete(): it is not part of the transaction
WorkerProgress(r, id, now) ==
    ProgressCompleteInactive(ProgressCompletePhase(
        ProgressStartTotals(
            ProgressStartFields(ProgressReset(progress), OperationTypeOf(r.operation),
                                OperationIdOf(r.snapshot_id), id),
            0, 0, 0, now)))

\* steep_repl_database_worker_main: one loop iteration that finds pending
\* work, as one transaction.  A statement that violates a CHECK constraint
\* raises, the transaction is rolled back and the worker process ends.
database_worker_transaction ==
    \E id \in OldestPending :
        LET r == work_queue[id]
            s == r.snapshot_id
            has == s \in SnapshotIds /\ snapshots[s] # NoSnapshotRow
            done == SnapshotComplete(SnapshotGenerating(snapshots[s], clock), clock)
        IN  /\ lwlock = NULL
            /\ progress' = WorkerProgress(r, id, clock)
            /\ stable' = progress'
            /\ IF has /\ ~(snapshots_status_check(done) /\ snapshots_phase_check(done))
               THEN /\ sresult' = SResult("database_worker", s, id, "ERROR: check constraint")
                    /\ UNCHANGED <<work_queue, snapshots>>
               ELSE /\ QueueWrite([work_queue EXCEPT ![id] =
                                      MarkComplete(MarkRunning(@, 1, clock), clock)])
                    /\ snapshots' = IF has THEN [snapshots EXCEPT ![s] = done] ELSE snapshots
                    /\ sresult' = SResult("database_worker", s, id, "processed")
            /\ UNCHANGED <<seq, clock>>
            /\ SnapshotFrame

\* work queued for a snapshot id that has no record, or for a merge
queue_work ==
    \E operation \in Operations, s \in {NullText, "snap_a"} :
        /\ seq < MaxId
        /\ CheckConstraints(NewRow(operation, s, IF s = NullText THEN "b1eebc99" ELSE NullText, clock))
        /\ seq' = seq + 1
        /\ QueueWrite(work_queue @@ ((seq + 1) :>
                NewRow(operation, s, IF s = NullText THEN "b1eebc99" ELSE NullText, clock)))
        /\ sresult' = SResult("queue_work", s, seq + 1, "ok")
        /\ UNCHANGED <<clock, snapshots, progress, stable>>
        /\ SnapshotFrame

NextSnapshot ==
    \/ start_snapshot
    \/ queue_work
    \/ cancel_snapshot
    \/ cancel_work
    \/ claim_work
    \/ complete_work
    \/ fail_work
    \/ database_worker_transaction

SpecSnapshot == Init /\ [][NextSnapshot]_vars

\* ---------------------------------------------------------------- prune
\* a DELETE that also takes the rows whose age equals the interval
PruneWorkMatches_NotStrict(r, now, older_than) ==
    /\ r.status \in {"complete", "failed", "cancelled"}
    /\ r.completed_at # NULL
    /\ r.completed_at <= now - older_than

\* WHERE status IN ('complete', 'failed', 'cancelled')
\* AND completed_at < now() - p_older_than
PruneWorkMatches(r, now, older_than) ==
    /\ r.status \in {"complete", "failed", "cancelled"}
    /\ r.completed_at # NULL
    /\ r.completed_at < now - older_than

\* steep_repl.prune_work_queue(p_older_than): the DELETE and its ROW_COUNT
prune_work_queue ==
    \E older_than \in IntervalInputsPrune :
        LET deleted == {id \in Rows : PruneWorkMatches(work_queue[id], clock, older_than)}
        IN  /\ QueueWrite([id \in Rows \ deleted |-> work_queue[id]])
            /\ presult' = [op |-> "prune_work_queue", older_than |-> older_than,
                           ret |-> Cardinality(deleted)]
            /\ UNCHANGED <<seq, clock, snapshots, sresult, progress, stable>>
            /\ UNCHANGED <<alive, pc, txrow, txver, txstart, trail, hist, claimers, claimed_by,
                           result, cancelVars, lwlock, snap, quiesceVars, mergeVars,
                           recordVars, stringVars, fingerprintVars, coordinatorVars>>

\* the passing of time between the calls
PruneTick ==
    /\ clock < MaxClock
    /\ clock' = clock + 1
    /\ UNCHANGED <<work_queue, seq, snapshots, sresult, progress, stable>>
    /\ SnapshotFrame

NextPrune ==
    \/ queue_work
    \/ claim_work
    \/ complete_work
    \/ fail_work
    \/ cancel_work
    \/ PruneTick
    \/ prune_work_queue

SpecPrune == Init /\ [][NextPrune]_vars

\* ---------------------------------------------------------------- coordinator
\* string_agg(datname, ',') over the enabled rows, in some order of the rows
RECURSIVE StringAggNames(_)
StringAggNames(names) ==
    IF Cardinality(names) = 1 THEN CHOOSE n \in names : TRUE
    ELSE LET n == CHOOSE x \in names : TRUE
         IN  n \o Comma \o StringAggNames(names \ {n})

\* db_list.split(',')
RECURSIVE Split(_)
Split(s) ==
    IF \E i \in 1..Len(s) : s[i] = Comma[1]
    THEN LET i == CHOOSE k \in 1..Len(s) : s[k] = Comma[1] /\ \A j \in 1..(k - 1) : s[j] # Comma[1]
         IN  <<SubSeq(s, 1, i - 1)>> \o Split(SubSeq(s, i + 1, Len(s)))
    ELSE <<s>>

\* db_name.trim()
RECURSIVE Trim(_)
Trim(s) ==
    IF s # <<>> /\ s[1] = Space[1] THEN Trim(Tail(s))
    ELSE IF s # <<>> /\ s[Len(s)] = Space[1] THEN Trim(SubSeq(s, 1, Len(s) - 1))
    ELSE s

\* string_to_datum: the eight bytes of the i64, lowest first: the length
\* (at most 63), then the first seven bytes of the name
StringToDatum(s) ==
    [i \in 1..8 |-> IF i = 1 THEN (IF Len(s) < 63 THEN Len(s) ELSE 63)
                    ELSE IF i - 1 <= Len(s) THEN s[i - 1] ELSE 0]

\* datum_to_string: len.min(7) bytes behind the length byte
DatumToString(datum) ==
    FromUtf8Lossy([i \in 1..(IF datum[1] < 7 THEN datum[1] ELSE 7) |-> datum[i + 1]])

\* WHERE enabled = true
EnabledDatabases == {n \in DatabaseNames : databases[n] = "enabled"}

\* one pass of the for loop over the split list: the names it spawns workers
\* for and the coordinator's two collections after it.  load_dynamic
\* succeeds for the names in ok.
RECURSIVE SpawnLoop(_, _, _, _)
SpawnLoop(list, c, counter, ok) ==
    IF list = <<>> THEN c
    ELSE LET db_name == Trim(Head(list))
             rest == Tail(list)
             in_backoff == /\ c.failed_databases[db_name] # NULL
                           /\ counter - c.failed_databases[db_name] < BACKOFF_ITERATIONS
             retry == [c EXCEPT !.failed_databases[db_name] = NULL]
         IN  IF db_name = <<>> \/ db_name \in c.databases_with_workers
             THEN SpawnLoop(rest, c, counter, ok)
             ELSE IF in_backoff
             THEN SpawnLoop(rest, c, counter, ok)
             ELSE IF db_name \notin pg_database
             THEN SpawnLoop(rest, [retry EXCEPT !.failed_databases[db_name] = counter],
                            counter, ok)
             ELSE IF db_name \in ok
             THEN SpawnLoop(rest,
                            [retry EXCEPT
                                !.databases_with_workers = @ \cup {db_name},
                                !.spawned = Append(@,
                                    [name |-> db_name,
                                     enabled |-> db_name \in EnabledDatabases,
                                     exists |-> db_name \in pg_database,
                                     datum |-> StringToDatum(db_name)])],
                            counter, ok)
             ELSE SpawnLoop(rest, [retry EXCEPT !.failed_databases[db_name] = counter],
                            counter, ok)

CoordinatorFrame ==
    UNCHANGED <<queueVars, cancelVars, progressVars, quiesceVars, mergeVars, recordVars,
                stringVars, fingerprintVars, snapshotVars>>

\* steep_repl_static_worker_main: one iteration of the main loop
coordinator_iteration ==
    \E ok \in {{}, WorkerNames} :
        LET counter == coordinator.discovery_counter + 1
            c == [databases_with_workers |-> coordinator.databases_with_workers,
                  failed_databases |-> coordinator.failed_databases,
                  spawned |-> <<>>]
            done == IF EnabledDatabases = {} THEN c
                    ELSE SpawnLoop(Split(StringAggNames(EnabledDatabases)), c, counter, ok)
        IN  /\ coordinator.discovery_counter < MaxDiscovery
            /\ IF ~(counter % 10 = 1 \/ coordinator.databases_with_workers = {})
               THEN /\ coordinator' = [coordinator EXCEPT !.discovery_counter = counter]
                    /\ UNCHANGED spawned
               ELSE IF ~catalog_exists
               THEN /\ coordinator' = [coordinator EXCEPT !.discovery_counter = counter,
                                                          !.warned_no_catalog = TRUE]
                    /\ UNCHANGED spawned
               ELSE /\ coordinator' = [discovery_counter |-> counter,
                                       warned_no_catalog |-> FALSE,
                                       databases_with_workers |-> done.databases_with_workers,
                                       failed_databases |-> done.failed_databases]
                    /\ spawned' = spawned \o done.spawned
            /\ UNCHANGED <<databases, pg_database, catalog_exists>>
            /\ CoordinatorFrame

\* CREATE EXTENSION steep_repl in the postgres database
create_extension ==
    /\ ~catalog_exists
    /\ catalog_exists' = TRUE
    /\ UNCHANGED <<databases, pg_database, coordinator, spawned>>
    /\ CoordinatorFrame

\* CREATE DATABASE and DROP DATABASE
create_database ==
    \E n \in DatabaseNames :
        /\ n \notin pg_database
        /\ pg_database' = pg_database \cup {n}
        /\ UNCHANGED <<databases, catalog_exists, coordinator, spawned>>
        /\ CoordinatorFrame

drop_database ==
    \E n \in DatabaseNames :
        /\ n \in pg_database
        /\ pg_database' = pg_database \ {n}
        /\ UNCHANGED <<databases, catalog_exists, coordinator, spawned>>
        /\ CoordinatorFrame

\* steep_repl.register_db(dbname), called in the postgres database
register_db ==
    \E n \in DatabaseNames :
        /\ catalog_exists
        /\ n \in pg_database
        /\ databases[n] # "enabled"
        /\ databases' = [databases EXCEPT ![n] = "enabled"]
        /\ UNCHANGED <<pg_database, catalog_exists, coordinator, spawned>>
        /\ CoordinatorFrame

\* steep_repl.unregister_db(dbname)
unregister_db ==
    \E n \in DatabaseNames :
        /\ catalog_exists
        /\ databases[n] # "absent"
        /\ databases' = [databases EXCEPT ![n] = "absent"]
        /\ UNCHANGED <<pg_database, catalog_exists, coordinator, spawned>>
        /\ CoordinatorFrame

\* steep_repl.disable_db(dbname)
disable_db ==
    \E n \in DatabaseNames :
        /\ catalog_exists
        /\ databases[n] = "enabled"
        /\ databases' = [databases EXCEPT ![n] = "disabled"]
        /\ UNCHANGED <<pg_database, catalog_exists, coordinator, spawned>>
        /\ CoordinatorFrame

\* steep_repl.enable_db(dbname)
enable_db ==
    \E n \in DatabaseNames :
        /\ catalog_exists
        /\ databases[n] = "disabled"
        /\ databases' = [databases EXCEPT ![n] = "enabled"]
        /\ UNCHANGED <<pg_database, catalog_exists, coordinator, spawned>>
        /\ CoordinatorFrame

NextCoordinator ==
    \/ coordinator_iteration
    \/ create_extension
    \/ create_database
    \/ drop_database
    \/ register_db
    \/ unregister_db
    \/ disable_db
    \/ enable_db

SpecCoordinator == Init /\ [][NextCoordinator]_vars

\* ---------------------------------------------------------------- cancel and locks
\* cancel_work_entry on a row that an open transaction has locked: the UPDATE
\* finds the committed row version, which matches its WHERE clause, and waits
\* for the transaction that holds the row.
LockHolder(id) == CHOOSE p \in Pids : txrow[p] = id

cancel_work_entry_wait ==
    \E id \in Rows :
        /\ CanCancel(work_queue[id])
        /\ Locked(id)
        /\ id \notin cancel_waiting
        /\ cancel_waiting' = cancel_waiting \cup {id}
        /\ cancel_requested' = cancel_requested \cup
               (IF txver[LockHolder(id)].status = "running" THEN {id} ELSE {})
        /\ result' = Result("cancel_wait", NULL, id, <<>>, "waiting")
        /\ UNCHANGED <<work_queue, seq, clock, alive, pc, txrow, txver, txstart,
                       trail, hist, claimers, claimed_by>>
        /\ UNCHANGED <<progressVars, quiesceVars, mergeVars, recordVars, restVars>>

\* The holder has committed or rolled back: the UPDATE checks its WHERE clause
\* again on the row as it is now, and applies only if it still matches.
cancel_work_entry_resume ==
    \E id \in cancel_waiting :
        /\ ~Locked(id)
        /\ cancel_waiting' = cancel_waiting \ {id}
        /\ IF CanCancel(work_queue[id])
           THEN /\ work_queue' = [work_queue EXCEPT ![id] = MarkCancelled(@, clock)]
                /\ hist' = [hist EXCEPT ![id] = Append(@, "cancelled")]
                /\ result' = Result("cancel", NULL, id, <<>>, "true")
           ELSE /\ UNCHANGED <<work_queue, hist>>
                /\ result' = Result("cancel", NULL, id, <<>>, "false")
        /\ UNCHANGED <<seq, clock, alive, pc, txrow, txver, txstart, trail,
                       claimers, claimed_by>>
        /\ UNCHANGED <<cancel_requested, progressVars, quiesceVars, mergeVars,
                       recordVars, restVars>>

NextCancel ==
    \/ queue_snapshot_generate
    \/ database_worker_claim
    \/ database_worker_progress_start
    \/ database_worker_progress_started
    \/ database_worker_progress_complete
    \/ database_worker_progress_completed
    \/ database_worker_complete
    \/ database_worker_commit
    \/ process_exit
    \/ cancel_work_entry
    \/ cancel_work_entry_wait
    \/ cancel_work_entry_resume

SpecCancel == Init /\ [][NextCancel]_vars


\* ---------------------------------------------------------------- scheduling
\* What runs without anybody asking: the worker loops poll for ever
\* (while BackgroundWorker::wait_latch(...)), so each of their steps is taken
\* when it stays possible.  Sessions call claim_work() and
\* recover_abandoned_work() when they choose to; no loop of the extension
\* calls recover_abandoned_work.
NextRecover ==
    \/ queue_snapshot_generate
    \/ claim_next_work_begin
    \/ claim_next_work_return
    \/ worker_claim
    \/ worker_complete
    \/ worker_commit
    \/ process_exit
    \/ recover_abandoned_work

WorkerLoopFairness ==
    /\ WF_vars(worker_claim)
    /\ WF_vars(worker_complete)
    /\ WF_vars(worker_commit)

SpecRecover == Init /\ [][NextRecover]_vars /\ WorkerLoopFairness


\* ---------------------------------------------------------------- quiesce
\* merge.rs steep_repl.quiesce_writes / release_quiesce on one table.  The
\* advisory lock is a session-level lock: one session at a time can hold it,
\* and the session that holds it can take it again (each pg_advisory_unlock
\* gives back one hold).  Time is counted in ticks as the function measures
\* it with clock_timestamp(): the activity query takes QueryTicks, pg_sleep(0.1)
\* takes PollTicks.
\*
\* The activity query joins pg_locks, which is read afresh by every query,
\* with pg_stat_activity, which a backend collects when it first asks for it
\* in a transaction and then shows unchanged until the transaction ends.
PollTicks == 2

QueryTicks == 1

TimeoutInputs == {0, 1, 4}

\* pg_try_advisory_lock that does not look at other sessions
TryAdvisoryLock_Shared(s) == TRUE

\* IF NOT pg_try_advisory_lock(v_lock_id)
TryAdvisoryLock(s) == \A o \in Backends \ {s} : advisory[o] = 0

\* FROM pg_stat_activity psa: the snapshot of the caller's transaction
ActivitySnapshot(s) ==
    IF activity[s].taken THEN activity[s] ELSE [taken |-> TRUE, pids |-> sessions]

\* SELECT count(*) ... JOIN pg_locks pl ON psa.pid = pl.pid ...
\* pl.mode IN (write lock modes) AND psa.pid <> pg_backend_pid()
ActiveCount(s) == Cardinality((writers \cap ActivitySnapshot(s).pids) \ {s})

\* a wait loop without a timeout check
Expired_Never(elapsed, timeout) == FALSE

\* extract(epoch from (clock_timestamp() - v_start_time)) * 1000 > p_timeout_ms
Expired(elapsed, timeout) == elapsed > timeout

\* One pass of the LOOP body up to its pg_sleep, for session s holding the
\* lock a times: the activity query, EXIT WHEN, the timeout check.
QuiescePoll(s, timeout, elapsed, rounds, held, a) ==
    /\ activity' = [activity EXCEPT ![s] = ActivitySnapshot(s)]
    /\ IF ActiveCount(s) = 0
       THEN /\ advisory' = [advisory EXCEPT ![s] = a]
            /\ qcall' = [qcall EXCEPT ![s] = NoCall]
            /\ qresult' = QResult("quiesce", s, timeout, elapsed, rounds, held, "TRUE", "")
       ELSE IF Expired(elapsed, timeout)
       THEN /\ advisory' = [advisory EXCEPT ![s] = a - 1]
            /\ qcall' = [qcall EXCEPT ![s] = NoCall]
            /\ qresult' = QResult("quiesce", s, timeout, elapsed, rounds, held, "FALSE",
                                  "Timeout waiting for active transactions")
       ELSE /\ advisory' = [advisory EXCEPT ![s] = a]
            /\ qcall' = [qcall EXCEPT ![s] =
                           [timeout |-> timeout, elapsed |-> elapsed, rounds |-> rounds,
                            held |-> held, sleeping |-> TRUE]]
            /\ qresult' = QResult("quiesce", s, timeout, elapsed, rounds, held,
                                  "sleeping", "")

QuiesceFrame ==
    UNCHANGED <<queueVars, cancelVars, progressVars, mergeVars, recordVars, restVars>>

\* steep_repl.quiesce_writes(p_schema, p_table, p_timeout_ms) up to its first
\* pg_sleep or RETURN
quiesce_writes ==
    \E s \in sessions, timeout \in TimeoutInputs :
        /\ ~qcall[s].sleeping
        /\ advisory[s] < MaxHold
        /\ IF ~TryAdvisoryLock(s)
           THEN /\ qresult' = QResult("quiesce", s, timeout, 0, 0, advisory[s], "FALSE",
                                      "Could not acquire advisory lock")
                /\ UNCHANGED <<advisory, qcall, activity>>
           ELSE QuiescePoll(s, timeout, QueryTicks, 0, advisory[s], advisory[s] + 1)
        /\ UNCHANGED <<sessions, writers>>
        /\ QuiesceFrame

\* pg_sleep(0.1) has returned: the next pass of the LOOP
quiesce_writes_wake ==
    \E s \in sessions :
        /\ qcall[s].sleeping
        /\ QuiescePoll(s, qcall[s].timeout,
                       qcall[s].elapsed + PollTicks + QueryTicks,
                       qcall[s].rounds + 1, qcall[s].held, advisory[s])
        /\ UNCHANGED <<sessions, writers>>
        /\ QuiesceFrame

\* steep_repl.release_quiesce: RETURN pg_advisory_unlock(v_lock_id)
release_quiesce ==
    \E s \in sessions :
        /\ ~qcall[s].sleeping
        /\ IF advisory[s] > 0
           THEN /\ advisory' = [advisory EXCEPT ![s] = @ - 1]
                /\ qresult' = QResult("release", s, 0, 0, 0, advisory[s], "TRUE", "")
           ELSE /\ UNCHANGED advisory
                /\ qresult' = QResult("release", s, 0, 0, 0, advisory[s], "FALSE",
                                      "you don't own a lock of type ExclusiveLock")
        /\ UNCHANGED <<sessions, activity, writers, qcall>>
        /\ QuiesceFrame

\* A session's INSERT, UPDATE or DELETE on the table takes RowExclusiveLock on
\* it until its transaction ends.  Nothing in such a statement looks at
\* advisory locks.
writer_begin ==
    \E s \in sessions \ writers :
        /\ ~qcall[s].sleeping
        /\ writers' = writers \cup {s}
        /\ qresult' = NoQResult
        /\ UNCHANGED <<sessions, activity, advisory, qcall>>
        /\ QuiesceFrame

\* COMMIT or ROLLBACK of a session: its table locks go, its pg_stat_activity
\* snapshot is dropped, its session-level advisory lock stays
transaction_end ==
    \E s \in sessions :
        /\ ~qcall[s].sleeping
        /\ s \in writers \/ activity[s].taken
        /\ writers' = writers \ {s}
        /\ activity' = [activity EXCEPT ![s] = NoActivity]
        /\ qresult' = NoQResult
        /\ UNCHANGED <<sessions, advisory, qcall>>
        /\ QuiesceFrame

\* a client connects: a new backend with a pid of its own
session_connect ==
    \E s \in Backends \ sessions :
        /\ sessions' = sessions \cup {s}
        /\ qresult' = NoQResult
        /\ UNCHANGED <<activity, advisory, writers, qcall>>
        /\ QuiesceFrame

\* a backend ends: every lock of the session is released
session_disconnect ==
    \E s \in sessions :
        /\ sessions' = sessions \ {s}
        /\ writers' = writers \ {s}
        /\ advisory' = [advisory EXCEPT ![s] = 0]
        /\ activity' = [activity EXCEPT ![s] = NoActivity]
        /\ qcall' = [qcall EXCEPT ![s] = NoCall]
        /\ qresult' = NoQResult
        /\ QuiesceFrame

NextQuiesce ==
    \/ quiesce_writes
    \/ quiesce_writes_wake
    \/ release_quiesce
    \/ writer_begin
    \/ transaction_end
    \/ session_connect
    \/ session_disconnect

SpecQuiesce == Init /\ [][NextQuiesce]_vars

\* ---------------------------------------------------------------- compare
\* merge.rs steep_repl.row_hash and steep_repl.compare_table_rows.  The local
\* table and the remote table (read through dblink) hold at most one row per
\* primary key.

\* hashtextextended(p_row::text, 0): a 64-bit hash of the row's text.  It is
\* many-to-one; the rows a and c stand for two rows with the same hash.
RowHash(row) ==
    CASE row.data = "a" -> 1111
      [] row.data = "b" -> 2222
      [] row.data = "c" -> 1111

\* jsonb_build_object('id', t.id)
PkJson(k) == <<"id", k>>

\* SELECT jsonb_build_object(...) as pk_json, steep_repl.row_hash(t.*) as row_hash FROM t
Hashes(table) ==
    {[pk_json |-> PkJson(k), row_hash |-> RowHash(table[k])] :
        k \in {j \in Keys : table[j] # Absent}}

\* the row of NULLs an outer join puts on the side that has no partner
NullHashes == [pk_json |-> NullJson, row_hash |-> NULL]

\* a join that keeps only the local side's unmatched rows
FullOuterJoin_Left(l_rows, r_rows) ==
    {<<l, r>> \in l_rows \X r_rows : l.pk_json = r.pk_json}
    \cup {<<l, NullHashes>> : l \in {x \in l_rows : \A r \in r_rows : x.pk_json # r.pk_json}}

\* FROM local_hashes l FULL OUTER JOIN _remote_hashes r ON l.pk_json = r.pk_json
FullOuterJoin(l_rows, r_rows) ==
    {<<l, r>> \in l_rows \X r_rows : l.pk_json = r.pk_json}
    \cup {<<l, NullHashes>> : l \in {x \in l_rows : \A r \in r_rows : x.pk_json # r.pk_json}}
    \cup {<<NullHashes, r>> : r \in {x \in r_rows : \A l \in l_rows : l.pk_json # x.pk_json}}

\* CASE WHEN l.pk_json IS NULL ... WHEN r.pk_json IS NULL ...
\*      WHEN l.row_hash = r.row_hash ... ELSE 'conflict' END
Category(l, r) ==
    IF l.pk_json = NullJson THEN "remote_only"
    ELSE IF r.pk_json = NullJson THEN "local_only"
    ELSE IF l.row_hash = r.row_hash THEN "match"
    ELSE "conflict"

\* COALESCE(l.pk_json, r.pk_json)
Coalesce(a, b) == IF a # NullJson THEN a ELSE b

\* the SELECT list of v_compare_query over the join
CompareTableRows(local, remote) ==
    {[pk_value |-> Coalesce(pair[1].pk_json, pair[2].pk_json),
      category |-> Category(pair[1], pair[2]),
      local_hash |-> pair[1].row_hash,
      remote_hash |-> pair[2].row_hash] :
        pair \in FullOuterJoin(Hashes(local), Hashes(remote))}

MergeFrame ==
    UNCHANGED <<queueVars, cancelVars, progressVars, quiesceVars, recordVars, restVars>>

\* a session inserts, updates or deletes a row of the local table
LocalWrite(keys) ==
    \E k \in keys, row \in RowInputs \cup {Absent} :
        /\ local_table[k] # row
        /\ local_table' = [local_table EXCEPT ![k] = row]
        /\ overlap' = NotCompared
        /\ mresult' = NoMResult
        /\ UNCHANGED <<remote_table, audit_log, audit_seq>>
        /\ MergeFrame

\* a session of the peer inserts, updates or deletes a row of the remote table
RemoteWrite(keys) ==
    \E k \in keys, row \in RowInputs \cup {Absent} :
        /\ remote_table[k] # row
        /\ remote_table' = [remote_table EXCEPT ![k] = row]
        /\ overlap' = NotCompared
        /\ mresult' = NoMResult
        /\ UNCHANGED <<local_table, audit_log, audit_seq>>
        /\ MergeFrame

local_write == LocalWrite(Keys)

remote_write == RemoteWrite(Keys)

\* SELECT * FROM steep_repl.compare_table_rows(...)
compare_table_rows ==
    /\ overlap = NotCompared
    /\ overlap' = CompareTableRows(local_table, remote_table)
    /\ UNCHANGED <<local_table, remote_table, audit_log, audit_seq, mresult>>
    /\ MergeFrame

NextCompare ==
    \/ local_write
    \/ remote_write
    \/ compare_table_rows

SpecCompare == Init /\ [][NextCompare]_vars

\* ---------------------------------------------------------------- merge
\* The bidirectional merge of one table.  The extension queues the merge with
\* its strategy and dry_run flag (work_queue.rs queue_merge) and declares the
\* strategies, the audit log and its resolutions (merge_audit_log.rs); the
\* engine that resolves and applies is not part of the extension, whose
\* execute_bidirectional_merge is a placeholder.  The engine is modelled after
\* its specification: compare, resolve every row that is not a match by the
\* strategy, log one audit record per resolved row, and apply the resolution
\* to the tables unless the merge is a dry run.

\* merge_operations_strategy_check
Strategies == {"prefer-local", "prefer-remote", "last-modified"}

\* merge_audit_log: CHECK (category IN (...))
Categories == {"match", "conflict", "local_only", "remote_only"}

\* merge_audit_log: CHECK (resolution IS NULL OR resolution IN (...)); node A
\* is the local node, node B the remote one
Resolutions == {NullText, "kept_a", "kept_b", "skipped"}

\* a queued merge that forgets the strategy it was given
MergeParams_DefaultStrategy(strategy, dry_run) ==
    [strategy |-> "prefer-local", dry_run |-> dry_run]

\* a queued merge that forgets that it is a dry run
MergeParams_NoDryRun(strategy, dry_run) ==
    [strategy |-> strategy, dry_run |-> FALSE]

\* queue_merge: jsonb_build_object('strategy', p_strategy, 'dry_run', p_dry_run)
MergeParams(strategy, dry_run) ==
    [strategy |-> strategy, dry_run |-> dry_run]

\* the resolution of a conflict under a strategy
ResolveConflict(strategy, local_row, remote_row) ==
    CASE strategy = "prefer-local" -> "kept_a"
      [] strategy = "prefer-remote" -> "kept_b"
      [] strategy = "last-modified" ->
            IF remote_row.modified_at > local_row.modified_at
            THEN "kept_b" ELSE "kept_a"

\* the resolution of a row that is not a match
Resolve(strategy, category, local_row, remote_row) ==
    CASE category = "conflict" -> ResolveConflict(strategy, local_row, remote_row)
      [] category = "local_only" -> "kept_a"
      [] category = "remote_only" -> "kept_b"

KeyOf(pk_value) == pk_value[2]

\* the keys of the rows of a comparison that are not a match
UnmatchedKeys(ov) == {KeyOf(r.pk_value) : r \in {x \in ov : x.category # "match"}}

CategoryOf(ov, k) == (CHOOSE r \in ov : r.pk_value = PkJson(k)).category

\* the columns of an audit record that the caller supplies
AuditValues(pk_value, category, resolution, node_a_value, node_b_value, resolved_by) ==
    [pk_value |-> pk_value, category |-> category, resolution |-> resolution,
     node_a_value |-> node_a_value, node_b_value |-> node_b_value,
     resolved_by |-> resolved_by]

\* the audit record of key k
Decision(strategy, ov, k, local, remote) ==
    AuditValues(PkJson(k), CategoryOf(ov, k),
                Resolve(strategy, CategoryOf(ov, k), local[k], remote[k]),
                local[k], remote[k], <<"strategy", strategy>>)

RECURSIVE Ascending(_)
Ascending(keys) ==
    IF keys = {} THEN <<>>
    ELSE LET k == CHOOSE x \in keys : \A y \in keys : x <= y
         IN <<k>> \o Ascending(keys \ {k})

\* the audit records of a merge, in key order
Decisions(strategy, ov, local, remote) ==
    [i \in 1..Cardinality(UnmatchedKeys(ov)) |->
        Decision(strategy, ov, Ascending(UnmatchedKeys(ov))[i], local, remote)]

\* a table after the resolutions have been applied to it
Applied(table, other, keeps, ds) ==
    [k \in Keys |->
        IF \E i \in DOMAIN ds : ds[i].pk_value = PkJson(k) /\ ds[i].resolution # keeps
        THEN other[k] ELSE table[k]]

Counts(ov, ds, dry_run) ==
    [match |-> Cardinality({r \in ov : r.category = "match"}),
     conflict |-> Cardinality({r \in ov : r.category = "conflict"}),
     local_only |-> Cardinality({r \in ov : r.category = "local_only"}),
     remote_only |-> Cardinality({r \in ov : r.category = "remote_only"}),
     rows_merged |-> IF dry_run THEN 0 ELSE Len(ds)]

\* merge_audit_log: id BIGSERIAL, resolved_at DEFAULT now()
AuditRow(values, now) ==
    [pk_value |-> values.pk_value, category |-> values.category,
     resolution |-> values.resolution, node_a_value |-> values.node_a_value,
     node_b_value |-> values.node_b_value, resolved_by |-> values.resolved_by,
     resolved_at |-> now]

\* INSERT INTO steep_repl.merge_audit_log of a sequence of records
Logged(ds, now) ==
    [id \in DOMAIN audit_log \cup (audit_seq + 1)..(audit_seq + Len(ds)) |->
        IF id \in DOMAIN audit_log THEN audit_log[id]
        ELSE AuditRow(ds[id - audit_seq], now)]

AuditFrame ==
    UNCHANGED <<queueVars, cancelVars, progressVars, quiesceVars, recordVars, restVars>>

merge_local_write == LocalWrite(MergeKeys)

merge_remote_write == RemoteWrite(MergeKeys)

\* a merge of the table: queued with a strategy and a dry_run flag, then run
bidirectional_merge ==
    \E strategy \in Strategies, dry_run \in BOOLEAN :
        LET params == MergeParams(strategy, dry_run)
            ov == CompareTableRows(local_table, remote_table)
            ds == Decisions(params.strategy, ov, local_table, remote_table)
        IN /\ audit_seq + Len(ds) <= MaxAudit
           /\ audit_log' = Logged(ds, clock)
           /\ audit_seq' = audit_seq + Len(ds)
           /\ IF params.dry_run
              THEN UNCHANGED <<local_table, remote_table>>
              ELSE /\ local_table' = Applied(local_table, remote_table, "kept_a", ds)
                   /\ remote_table' = Applied(remote_table, local_table, "kept_b", ds)
           /\ overlap' = NotCompared
           /\ mresult' = [op |-> "merge", strategy |-> strategy, dry_run |-> dry_run,
                          local |-> local_table, remote |-> remote_table,
                          first_id |-> audit_seq, logged |-> Len(ds),
                          counts |-> Counts(ov, ds, params.dry_run)]
           /\ AuditFrame

NextMerge ==
    \/ merge_local_write
    \/ merge_remote_write
    \/ bidirectional_merge

SpecMerge == Init /\ [][NextMerge]_vars

\* ---------------------------------------------------------------- audit log
\* merge_audit_log.rs steep_repl.log_merge_decision and
\* steep_repl.prune_merge_audit_log
CategoryInputs == {"conflict", "match", "unknown_category"}
ResolutionInputs == {NullText, "kept_a"}
IntervalInputs == {-1, 0, 1}

\* the CHECK constraints of steep_repl.merge_audit_log
AuditChecks(row) ==
    /\ row.category \in Categories
    /\ row.resolution \in Resolutions
    /\ row.pk_value # NullJson

\* SELECT steep_repl.log_merge_decision(...): the id is drawn from the
\* sequence before the constraints are checked
log_merge_decision ==
    \E category \in CategoryInputs, resolution \in ResolutionInputs :
        LET values == AuditValues(PkJson(1), category, resolution, RowA, RowB, <<"manual">>)
        IN /\ audit_seq < MaxAudit
           /\ audit_seq' = audit_seq + 1
           /\ IF AuditChecks(AuditRow(values, clock))
              THEN /\ audit_log' = Logged(<<values>>, clock)
                   /\ mresult' = [op |-> "log", ret |-> audit_seq + 1]
              ELSE /\ UNCHANGED audit_log
                   /\ mresult' = [op |-> "log", ret |-> "check_violation"]
           /\ UNCHANGED <<local_table, remote_table, overlap>>
           /\ AuditFrame

\* a prune that also takes the rows that are exactly as old as the interval
PruneMatches_Inclusive(row, now, older_than) == row.resolved_at <= now - older_than

\* WHERE resolved_at < now() - p_older_than
PruneMatches(row, now, older_than) == row.resolved_at < now - older_than

\* SELECT steep_repl.prune_merge_audit_log(p_older_than)
prune_merge_audit_log ==
    \E older_than \in IntervalInputs :
        LET doomed == {id \in DOMAIN audit_log : PruneMatches(audit_log[id], clock, older_than)}
        IN /\ audit_log' = [id \in DOMAIN audit_log \ doomed |-> audit_log[id]]
           /\ mresult' = [op |-> "prune", older_than |-> older_than,
                          ret |-> Cardinality(doomed)]
           /\ UNCHANGED <<local_table, remote_table, overlap, audit_seq>>
           /\ AuditFrame

NextAudit ==
    \/ log_merge_decision
    \/ prune_merge_audit_log
    \/ Tick

SpecAudit == Init /\ [][NextAudit]_vars

\* ================================================================ claims

RowsAndVersions ==
    {work_queue[id] : id \in Rows} \cup {txver[p] : p \in {q \in Pids : txrow[q] # NULL}}

\* ---------------------------------------------------------------- C1
\* the processes that hold a claim on the row: those whose open transaction
\* has it locked, and those whose claim of it was committed
Holders(id) == {p \in Pids : txrow[p] = id} \cup claimers[id]

\* C1: however many processes run the claim concurrently (claim_next_work,
\* steep_repl.claim_work(), the worker loops), no work item is claimed by more
\* than one of them: at any time at most one process holds a row, whether its
\* claim is still in flight or has been committed.
C1_NoDoubleClaim == \A id \in Rows : Cardinality(Holders(id)) <= 1

\* two processes are inside their claim at the same time, each with its own row
C1_Witness ==
    \E p, q \in Pids :
        /\ p # q
        /\ txrow[p] # NULL
        /\ txrow[q] # NULL
        /\ txrow[p] # txrow[q]

\* ---------------------------------------------------------------- C2
AllowedTransitions ==
    {<<"pending", "running">>, <<"running", "complete">>, <<"running", "failed">>,
     <<"pending", "cancelled">>, <<"running", "cancelled">>}

FollowsStateMachine(h) ==
    /\ h[1] = "pending"
    /\ \A i \in 1..(Len(h) - 1) : <<h[i], h[i + 1]>> \in AllowedTransitions

\* C2: every status change of a work item is one of Pending->Running,
\* Running->Complete, Running->Failed, Pending->Cancelled, Running->Cancelled;
\* no item reaches Complete without having been Running.  Stated over the
\* statuses each row went through, committed or written by the open
\* transaction that holds the row.
C2_TransitionsFollowStateMachine ==
    /\ \A id \in Rows : FollowsStateMachine(hist[id])
    /\ \A p \in Pids : txrow[p] # NULL => FollowsStateMachine(hist[txrow[p]] \o trail[p])

\* ---------------------------------------------------------------- C3
\* C3: once a work item is Complete, Failed or Cancelled no operation changes
\* its status again: the committed status of a row is the last entry of its
\* history, and no entry of a history follows a terminal one.
C3_TerminalIsFinal ==
    \A id \in Rows :
        /\ hist[id][Len(hist[id])] = work_queue[id].status
        /\ \A i \in 1..(Len(hist[id]) - 1) : hist[id][i] \notin Terminal

\* cancel has just been called on a row that is already terminal
C3_Witness ==
    /\ result.op = "cancel"
    /\ result.id \in Rows
    /\ result.ret = "false"
    /\ work_queue[result.id].status \in Terminal

\* ---------------------------------------------------------------- C4
DeadRunning ==
    {id \in Rows : work_queue[id].status = "running"
                   /\ work_queue[id].worker_pid \notin alive}

C5_CrashLeavesRunning ==
    \A id \in Rows :
        /\ (claimed_by[id] # {} /\ ~Locked(id)) => work_queue[id].status # "pending"
        /\ Cardinality(claimed_by[id]) <= 1

\* ---------------------------------------------------------------- C6
\* C6: the claim takes the Pending row with the earliest created_at that no
\* other open claim has locked, marks it Running with the caller's pid and
\* started_at, and hands it to the caller; it reports NoWork when no Pending
\* row is unlocked.
C6_ClaimOldestUnlocked ==
    /\ (result.op \in {"claim", "worker"} /\ result.ret = "NoWork") =>
           \A id \in Rows : work_queue[id].status = "pending" => Locked(id)
    /\ (result.op \in {"claim", "worker"} /\ result.ret = "running") =>
           LET p == result.pid
               id == result.id
           IN  /\ txrow[p] = id
               /\ id \in Rows
               /\ work_queue[id].status = "pending"
               /\ \A q \in Pids \ {p} : txrow[q] # id
               /\ \A o \in Rows :
                      (work_queue[o].status = "pending" /\ ~Locked(o)) =>
                          work_queue[id].created_at <= work_queue[o].created_at
               /\ txver[p].status = "running"
               /\ txver[p].worker_pid = p
               /\ txver[p].started_at # NULL
    /\ (result.op = "claim" /\ result.ret = "Claimed") =>
           /\ result.id \in Rows
           /\ work_queue[result.id].status = "running"
           /\ work_queue[result.id].worker_pid = result.pid
           /\ work_queue[result.id].started_at # NULL

\* a claim has just passed over an older Pending row that another open claim
\* has locked and taken a younger one
C6_Witness ==
    /\ result.op = "claim"
    /\ result.ret = "running"
    /\ \E o \in Rows :
        /\ work_queue[o].status = "pending"
        /\ LockedByOther(o, result.pid)
        /\ work_queue[o].created_at < work_queue[result.id].created_at

\* ---------------------------------------------------------------- C7
MayFinish(op, r) ==
    IF op = "cancel" THEN r.status \in {"pending", "running"} ELSE r.status = "running"

FinishedStatus(op) ==
    IF op = "cancel" THEN "cancelled" ELSE IF op = "fail" THEN "failed" ELSE "complete"

\* C7: complete and fail change an item only when it is Running, cancel only
\* when it is Pending or Running; on an item in any other state, or on an
\* unknown id, they leave every row as it was.
C7_FinishOnlyFromOpen ==
    [][result'.op \in {"complete", "fail", "cancel"} =>
        /\ DOMAIN work_queue' = Rows
        /\ \A id \in Rows :
            IF id = result'.id /\ MayFinish(result'.op, work_queue[id])
            THEN work_queue'[id].status = FinishedStatus(result'.op)
            ELSE work_queue'[id] = work_queue[id]]_vars

\* complete has just been called on a row that is still Pending
C7_Witness ==
    /\ result.op = "complete"
    /\ result.id \in Rows
    /\ work_queue[result.id].status = "pending"

\* ---------------------------------------------------------------- C8
\* C8 as stated: a row has a worker_pid recorded if and only if it is Running.
C8_ClaimantIffRunning ==
    \A r \in RowsAndVersions : (r.worker_pid # NULL) <=> (r.status = "running")

\* C8 as amended: a Running row always has a worker_pid recorded and a
\* Pending row never has one; the worker_pid stays on the row after it has
\* left Running.
C8_RunningHasClaimant ==
    \A r \in RowsAndVersions :
        /\ r.status = "running" => r.worker_pid # NULL
        /\ r.status = "pending" => r.worker_pid = NULL

\* a Running row with its claimant, next to a finished row that kept its own
C8_Witness ==
    /\ \E id \in Rows : /\ work_queue[id].status = "running"
                        /\ work_queue[id].worker_pid # NULL
    /\ \E id \in Rows : /\ work_queue[id].status \in Terminal
                        /\ work_queue[id].worker_pid # NULL

\* ---------------------------------------------------------------- C9
\* C9: every row has exactly one of snapshot_id and merge_id populated, the
\* one that matches its operation.
C9_ExactlyOneSubject ==
    \A id \in Rows :
        LET r == work_queue[id] IN
        IF r.operation = "bidirectional_merge"
        THEN r.merge_id # NullText /\ r.snapshot_id = NullText
        ELSE r.snapshot_id # NullText /\ r.merge_id = NullText

\* ---------------------------------------------------------------- C10
Consistent(operation, snapshot_id, merge_id) ==
    /\ operation \in Operations
    /\ operation \in {"snapshot_generate", "snapshot_apply"} => snapshot_id # NullText
    /\ operation = "bidirectional_merge" => merge_id # NullText

\* C10: enqueue adds exactly one new Pending row and returns its id when the
\* operation and its parameters are consistent; otherwise (unknown operation,
\* snapshot operation without snapshot id, merge operation without merge id)
\* it fails and leaves the queue as it was.
C10_EnqueueOrReject ==
    [][result'.op = "enqueue" =>
        IF Consistent(result'.args[1], result'.args[2], result'.args[3])
        THEN /\ result'.ret = "ok"
             /\ result'.id \notin Rows
             /\ DOMAIN work_queue' = Rows \cup {result'.id}
             /\ \A id \in Rows : work_queue'[id] = work_queue[id]
             /\ work_queue'[result'.id].status = "pending"
             /\ work_queue'[result'.id].operation = result'.args[1]
             /\ work_queue'[result'.id].snapshot_id = result'.args[2]
             /\ work_queue'[result'.id].merge_id = result'.args[3]
        ELSE /\ result'.ret = "check_violation"
             /\ work_queue' = work_queue]_vars

\* an inconsistent enqueue has just been rejected with a row already queued
C10_Witness ==
    /\ result.op = "enqueue"
    /\ result.ret = "check_violation"
    /\ Rows # {}

\* ---------------------------------------------------------------- C11
\* C11: a cancel called on a job while a worker is executing it is honoured:
\* once the cancel call has returned and the worker has let go of the job,
\* the job is Cancelled, not Complete or Failed.
C11_CancelHonoured ==
    \A id \in cancel_requested :
        (id \notin cancel_waiting /\ ~Locked(id)) =>
            work_queue[id].status = "cancelled"

\* ---------------------------------------------------------------- C12
\* C12: every Running item whose claimant process has died is eventually
\* Failed, by the recovery that the workers run at startup and periodically:
\* as long as a worker stays alive to run it, the item does not stay Running.
C12_DeadClaimantEventuallyFailed ==
    []<>(alive # {}) =>
        \A id \in Ids :
            (id \in Rows /\ id \in DeadRunning) ~>
                (id \in Rows /\ work_queue[id].status = "failed")

\* ---------------------------------------------------------------- C13
\* C13: the progress record belongs to one job at a time: a worker that has
\* started its job's progress and not yet completed it finds the record
\* active and carrying its own job id; no other worker's start or complete
\* has touched it in between.
C13_SingleOwner ==
    \A p \in Pids :
        pc[p] = "database_worker_started" =>
            /\ progress.active
            /\ progress.work_queue_id = txrow[p]

\* ---------------------------------------------------------------- C14
\* C14: a snapshot never sees a record that a writer has half written: what
\* get_progress_snapshot copies is the record as the last finished exclusive
\* section (start or complete) left it.
C14_SnapshotIsWhole == snap.seen = snap.committed

\* a snapshot has seen one job's active record, and a writer that came after
\* it is now inside its exclusive section with the record half written
C14_Witness ==
    /\ snap.seen.active
    /\ lwlock # NULL
    /\ progress # stable
    /\ progress # snap.seen

\* ---------------------------------------------------------------- C15
\* C15: when a worker has finished a job (its loop iteration has committed)
\* the work item is Complete, Failed or Cancelled and the progress record has
\* been reset: active is false and the phase is Idle.
C15_ClearedAfterJob ==
    (result.op = "database_worker" /\ result.ret = "processed") =>
        /\ work_queue[result.id].status \in Terminal
        /\ ~progress.active
        /\ progress.phase = "idle"

\* ---------------------------------------------------------------- C16..C20
\* C16: a quiesce_writes call with timeout 0 made while another session is an
\* active writer on the table returns FALSE without sleeping, and the caller
\* holds the advisory lock exactly as often after the call as before it: a
\* caller that held no lock holds none on return.
C16_ZeroTimeoutFails ==
    [][(/\ qresult'.op = "quiesce"
        /\ qresult'.rounds = 0
        /\ qresult'.timeout = 0
        /\ writers \ {qresult'.pid} # {})
       => (/\ qresult'.ret = "FALSE"
           /\ advisory' = advisory
           /\ ~qcall'[qresult'.pid].sleeping)]_vars

\* C17: quiesce_writes returns TRUE only at a poll that found no other session
\* with a write lock on the table; when it gives up on the timeout it has
\* given back the hold it took and returns FALSE, with the timeout exceeded
\* and a writer still active.
C17_NoSuccessWhileWriter ==
    [][(qresult'.op = "quiesce" /\ qresult' # qresult)
       => /\ (qresult'.ret = "TRUE") => writers' \ {qresult'.pid} = {}
          /\ (qresult'.notice = "Timeout waiting for active transactions")
                => /\ qresult'.ret = "FALSE"
                   /\ advisory'[qresult'.pid] = qresult'.held
                   /\ qresult'.elapsed > qresult'.timeout
                   /\ writers' \ {qresult'.pid} # {}]_vars

\* C18: while a session holds a successful quiesce (it holds the advisory lock
\* and its quiesce_writes call has returned), no other session is a writer on
\* the table.
C18_WritesBlocked ==
    \A s \in Backends :
        (advisory[s] > 0 /\ ~qcall[s].sleeping) => writers \ {s} = {}

C20_ExclusivePerTable ==
    /\ [](Cardinality({s \in Backends : advisory[s] > 0}) <= 1)
    /\ [][(/\ qresult'.op = "quiesce"
           /\ qresult'.rounds = 0
           /\ \E o \in Backends \ {qresult'.pid} : advisory[o] > 0)
          => (/\ qresult'.ret = "FALSE"
              /\ qresult'.elapsed = 0
              /\ advisory' = advisory
              /\ ~qcall'[qresult'.pid].sleeping)]_vars

C20_Witness ==
    /\ qresult.op = "quiesce"
    /\ qresult.ret = "FALSE"
    /\ qresult.notice = "Could not acquire advisory lock"
    /\ \E o \in Backends \ {qresult.pid} : advisory[o] > 0 /\ ~qcall[o].sleeping

\* ---------------------------------------------------------------- C21
PresentKeys(table) == {k \in Keys : table[k] # Absent}

ResultsFor(k) == {r \in overlap : r.pk_value = PkJson(k)}

ExpectedCategory(k) ==
    IF k \notin PresentKeys(remote_table) THEN "local_only"
    ELSE IF k \notin PresentKeys(local_table) THEN "remote_only"
    ELSE IF RowHash(local_table[k]) = RowHash(remote_table[k]) THEN "match"
    ELSE "conflict"

CountOf(category) == Cardinality({r \in overlap : r.category = category})

ExampleLocal == [k \in Keys |-> IF k = 1 THEN RowA ELSE IF k = 2 THEN RowB ELSE Absent]

ExampleRemote == [k \in Keys |-> IF k = 2 THEN RowB ELSE IF k = 3 THEN RowC ELSE Absent]

\* C21: compare_table_rows returns exactly one result for every primary key
\* that has a row on either side and none for any other key; the result of a
\* key is match when both sides have it with equal row hashes, conflict when
\* both have it with different hashes, local_only when only the local table
\* has it and remote_only when only the remote table has it.  For local rows
\* {(1,a),(2,b)} and remote rows {(2,b),(3,c)} that is one match (key 2), one
\* local_only (key 1), one remote_only (key 3) and no conflict.
C21_OneResultPerKey ==
    overlap # NotCompared =>
        /\ \A k \in PresentKeys(local_table) \cup PresentKeys(remote_table) :
                /\ Cardinality(ResultsFor(k)) = 1
                /\ \A r \in ResultsFor(k) : r.category = ExpectedCategory(k)
        /\ \A r \in overlap :
                \E k \in PresentKeys(local_table) \cup PresentKeys(remote_table) :
                    r.pk_value = PkJson(k)
        /\ (local_table = ExampleLocal /\ remote_table = ExampleRemote)
                => /\ CountOf("match") = 1 /\ ResultsFor(2) \subseteq {r \in overlap : r.category = "match"}
                   /\ CountOf("local_only") = 1 /\ ResultsFor(1) \subseteq {r \in overlap : r.category = "local_only"}
                   /\ CountOf("remote_only") = 1 /\ ResultsFor(3) \subseteq {r \in overlap : r.category = "remote_only"}
                   /\ CountOf("conflict") = 0

C21_Witness ==
    /\ overlap # NotCompared
    /\ local_table = ExampleLocal
    /\ remote_table = ExampleRemote
    /\ Cardinality(overlap) = 3

\* ---------------------------------------------------------------- C22
\* the keys that were a conflict when the last merge ran
ConflictKeys ==
    {k \in Keys : /\ mresult.local[k] # Absent
                  /\ mresult.remote[k] # Absent
                  /\ RowHash(mresult.local[k]) # RowHash(mresult.remote[k])}

\* the audit records the last merge wrote for key k
MergeRecords(k) ==
    {id \in (mresult.first_id + 1)..(mresult.first_id + mresult.logged) :
        audit_log[id].pk_value = PkJson(k)}

ExpectedResolution(strategy, local_row, remote_row) ==
    IF strategy = "prefer-local" THEN "kept_a"
    ELSE IF strategy = "prefer-remote" THEN "kept_b"
    ELSE IF local_row.modified_at > remote_row.modified_at THEN "kept_a"
    ELSE IF remote_row.modified_at > local_row.modified_at THEN "kept_b"
    ELSE "kept_a"

UpdateAfterUpdate ==
    /\ pcall.op = "update"
    /\ pcall'.op = "update"
    /\ progress'.bytes_processed >= progress.bytes_processed

\* C25 as stated: whatever the fixed bytes_total is, an update() call that
\* follows an update() call and reports at least as many bytes does not lower
\* overall_percent.
C25_PercentMonotone ==
    [][UpdateAfterUpdate
          => progress'.overall_percent >= progress.overall_percent]_vars

\* C25 amended: for a fixed positive bytes_total, an update() call that follows
\* an update() call and reports at least as many bytes does not lower
\* overall_percent.
C25_PercentMonotonePositive ==
    [][(UpdateAfterUpdate /\ progress.bytes_total > 0)
          => progress'.overall_percent >= progress.overall_percent]_vars

C25_Witness ==
    /\ pcall.op = "update"
    /\ pcall.prev = "update"
    /\ progress.bytes_total = 6
    /\ progress.rows_total = 2
    /\ progress.bytes_processed = 12
    /\ progress.rows_processed = 1
    /\ progress.overall_percent = 200

\* ---------------------------------------------------------------- C26
\* C26: whatever record complete() finds, it leaves overall_percent at exactly
\* 100, the phase at Complete and active false.
C26_CompleteYields100 ==
    pcall.op = "complete"
        => /\ progress.overall_percent = 100
           /\ progress.phase = "complete"
           /\ progress.active = FALSE

\* complete() on a record that an update() had left active at 50 percent
C26_Witness ==
    /\ pcall.op = "complete"
    /\ pcall.prev = "update"
    /\ progress.bytes_total = 6
    /\ progress.bytes_processed = 3
    /\ progress.overall_percent = 100
    /\ progress.phase = "complete"
    /\ ~progress.active

\* ---------------------------------------------------------------- C27
\* the percent the stated priority gives for a record
PriorityPercent(r) ==
    IF r.bytes_total > 0 THEN Percent(r.bytes_processed, r.bytes_total)
    ELSE IF r.rows_total > 0 THEN Percent(r.rows_processed, r.rows_total)
    ELSE IF r.tables_total > 0 THEN Percent(r.tables_completed, r.tables_total)
    ELSE 0

\* C27: after every update(), overall_percent is the bytes ratio if
\* bytes_total > 0, else the rows ratio if rows_total > 0, else the tables
\* ratio if tables_total > 0, else 0.
C27_PercentPriority ==
    pcall.op = "update" => progress.overall_percent = PriorityPercent(progress)

\* ---------------------------------------------------------------- C28
\* C28: overall_percent lies within [0, 100] in every reachable record.
C28_PercentInRange ==
    /\ progress.overall_percent >= 0
    /\ progress.overall_percent <= 100

\* ---------------------------------------------------------------- C29
\* C29: whenever the record has active = false, its phase is Idle, Complete or
\* Failed.
C29_InactivePhase ==
    ~progress.active => progress.phase \in {"idle", "complete", "failed"}

\* ---------------------------------------------------------------- C30
\* seconds between started_at and the last call
ElapsedAtCall == pcall.now - progress.started_at

\* C30: after update(), throughput is bytes_processed over the seconds elapsed
\* since started_at, and eta_seconds is the remaining bytes over the throughput
\* when the throughput is positive and zero otherwise.
C30_ThroughputAndEta ==
    pcall.op = "update" =>
        /\ ElapsedAtCall > 0 =>
               progress.throughput_bytes_sec.bytes * ElapsedAtCall
                   = progress.bytes_processed * progress.throughput_bytes_sec.secs
        /\ IF ElapsedAtCall > 0 /\ progress.bytes_processed > 0
           THEN progress.eta_seconds =
                    Eta(progress.bytes_total - progress.bytes_processed,
                        Throughput(progress.bytes_processed, ElapsedAtCall))
           ELSE progress.eta_seconds = 0

\* ---------------------------------------------------------------- C31
\* the bytes a field holds in front of its terminator
StoredBytes(field) == SubSeq(strings[field], 1, TerminatorLen(strings[field]))

\* the most bytes a field of the given name keeps
FieldBound(field) == FieldLen(field) - 1

\* C31: after a string is written to operation_id, current_table or
\* error_message, the field holds the string cut to the field's bound, and a
\* string within the bound is held whole and read back unchanged.
C31_TruncatedToBound ==
    scall.field \in StringFields =>
        IF Len(scall.input) <= FieldBound(scall.field)
        THEN /\ StoredBytes(scall.field) = scall.input
             /\ GetString(strings[scall.field]) = scall.input
        ELSE StoredBytes(scall.field) = SubSeq(scall.input, 1, FieldBound(scall.field))

\* an error message one byte over the bound, written over a longer one
C31_Witness ==
    /\ scall.field = "error_message"
    /\ scall.input = Repeat(LetterX, ERROR_MSG_LEN)
    /\ Len(StoredBytes("error_message")) = ERROR_MSG_LEN - 1
    /\ strings.error_message[ERROR_MSG_LEN] = 0
    /\ Len(StoredBytes("operation_id")) = OPERATION_ID_LEN - 1

\* ---------------------------------------------------------------- C32
\* the declared columns of two tables agree in name, data type, default
\* expression and nullability, column by column in ordinal order
ColumnsAgree(a, b) == a = b

\* C32: the fingerprint compute_fingerprint returned for a table equals the
\* fingerprint of another table, on either node, if and only if the column
\* lists of the two tables agree in name, data type, default expression and
\* nullability in ordinal order
C32_SameFingerprintIffColumnsAgree ==
    (fresult.op = "compute_fingerprint" /\ catalog["local"][fresult.table] # <<>>) =>
        \A side \in Sides, t \in FpTables :
            catalog[side][t] # <<>> =>
                ((ComputeFingerprint(catalog[side][t]) = fresult.digest)
                    <=> ColumnsAgree(catalog[side][t], catalog["local"][fresult.table]))

\* ---------------------------------------------------------------- C33
\* the rows the store holds for a table
StoredRows(table) ==
    {r \in schema_fingerprints : r.table_schema = "public" /\ r.table_name = table}

\* C33: the store never holds two rows for one table, and after
\* capture_fingerprint on an existing table it holds one row for it, with the
\* digest and the column list the table has at the capture
C33_OneRowOfLatestCapture ==
    /\ \A t \in FpTables : Cardinality(StoredRows(t)) <= 1
    /\ (fresult.op = "capture_fingerprint" /\ catalog["local"][fresult.table] # <<>>) =>
           /\ Cardinality(StoredRows(fresult.table)) = 1
           /\ \A r \in StoredRows(fresult.table) :
                  /\ r.fingerprint = ComputeFingerprint(catalog["local"][fresult.table])
                  /\ r.column_definitions =
                         InformationSchemaColumns(catalog["local"][fresult.table])

\* ---------------------------------------------------------------- C34
\* the status the comparison owes a table that exists on one of the nodes
ExpectedStatus(table) ==
    IF catalog["local"][table] = <<>> THEN "REMOTE_ONLY"
    ELSE IF catalog["remote"][table] = <<>> THEN "LOCAL_ONLY"
    ELSE IF ComputeFingerprint(catalog["local"][table])
                = ComputeFingerprint(catalog["remote"][table]) THEN "MATCH"
    ELSE "MISMATCH"

\* C34: compare_fingerprints with a registered peer returns exactly one row
\* for every table that exists on the local or the remote node, with status
\* MATCH, MISMATCH, LOCAL_ONLY or REMOTE_ONLY as the two nodes have it
C34_OneRowPerTable ==
    (fresult.op = "compare_fingerprints" /\ fresult.peer \in Nodes) =>
        /\ fresult.ret = "ok"
        /\ fresult.rows =
               {[table_schema |-> "public", table_name |-> t, status |-> ExpectedStatus(t)] :
                    t \in UserTables("local") \cup UserTables("remote")}

\* ---------------------------------------------------------------- C35
\* the two definitions of a column of the table that both nodes have
BothSides(table) ==
    {pair \in ColumnJoin(Range(InformationSchemaColumns(catalog["local"][table])),
                         Range(InformationSchemaColumns(catalog["remote"][table]))) :
        pair[1].column_name # NullText /\ pair[2].column_name # NullText}

FirstKind(l, r) ==
    IF l.column_name = NullText THEN "missing_local"
    ELSE IF r.column_name = NullText THEN "missing_remote"
    ELSE IF "type_change" \in Differences(l, r) THEN "type_change"
    ELSE IF "default_change" \in Differences(l, r) THEN "default_change"
    ELSE "nullable_change"

\* the columns of the table on the two nodes, joined by name
JoinedColumns(table) ==
    ColumnJoin(Range(InformationSchemaColumns(catalog["local"][table])),
               Range(InformationSchemaColumns(catalog["remote"][table])))

WorkItemsOf(s) == {id \in Rows : work_queue[id].snapshot_id = s}

\* C36: a snapshot record that has one work item is 'cancelled' exactly when
\* the work item is cancelled, and is 'complete' whenever the work item is
\* complete
C36_SnapshotAgreesWithWorkItem ==
    \A s \in SnapshotIds :
        (snapshots[s] # NoSnapshotRow /\ Cardinality(WorkItemsOf(s)) = 1) =>
            \A id \in WorkItemsOf(s) :
                /\ (snapshots[s].status = "cancelled") <=> (work_queue[id].status = "cancelled")
                /\ (work_queue[id].status = "complete") => (snapshots[s].status = "complete")

\* ---------------------------------------------------------------- C37
\* C37: in every committed row of the queue completed_at is set exactly when
\* the status is complete, failed or cancelled, and started_at is set exactly
\* when a claim of the row has been committed
C37_TimestampsFollowStatus ==
    \A id \in Rows :
        /\ (work_queue[id].completed_at # NULL) <=> (work_queue[id].status \in Terminal)
        /\ (work_queue[id].started_at # NULL) <=> (claimers[id] # {})

\* a row that was claimed and has reached a terminal status, next to one
\* that is still running or was cancelled before any claim
C37_Witness ==
    /\ \E id \in Rows :
           /\ work_queue[id].status \in Terminal
           /\ work_queue[id].started_at # NULL
           /\ work_queue[id].completed_at # NULL
    /\ \E id \in Rows :
           \/ work_queue[id].status = "running"
           \/ work_queue[id].status = "cancelled" /\ work_queue[id].started_at = NULL

\* ---------------------------------------------------------------- C38
\* the rows a step deletes
PrunedIds == Rows \ DOMAIN work_queue'

\* a step of prune_work_queue that is not a stuttering step
PruneStep == seq' = seq /\ (presult' # presult \/ PrunedIds # {})

\* C38: prune_work_queue deletes only rows that are complete, failed or
\* cancelled and whose completed_at lies more than the interval before now;
\* it deletes no pending or running row, leaves the rows it keeps as they
\* were, and returns the number of rows it deleted
C38_PruneOnlyOldTerminal ==
    [][PruneStep =>
          /\ DOMAIN work_queue' \subseteq Rows
          /\ \A id \in PrunedIds :
                 /\ work_queue[id].status \in Terminal
                 /\ clock - work_queue[id].completed_at > presult'.older_than
          /\ \A id \in Rows :
                 work_queue[id].status \in {"pending", "running"} => id \notin PrunedIds
          /\ \A id \in DOMAIN work_queue' : work_queue'[id] = work_queue[id]
          /\ presult'.ret = Cardinality(PrunedIds)]_vars

\* a call has deleted a row and a row that was claimed before the deleted
\* one was completed is still running
C38_Witness ==
    /\ presult.op = "prune_work_queue"
    /\ presult.ret > 0
    /\ Cardinality(Rows) < seq
    /\ \E id \in Rows : work_queue[id].status = "running" /\ work_queue[id].started_at < clock

\* ---------------------------------------------------------------- C39
\* C39: the coordinator has spawned at most one worker for each name, and
\* every name it spawned a worker for was enabled in the catalog and existed
\* when the worker was spawned
C39_OneWorkerPerEnabledDatabase ==
    /\ \A i, j \in 1..Len(spawned) : spawned[i].name = spawned[j].name => i = j
    /\ \A i \in 1..Len(spawned) : spawned[i].enabled /\ spawned[i].exists

\* ---------------------------------------------------------------- C40
\* C40: the name a spawned worker decodes from its argument is the name the
\* coordinator spawned it for
C40_DatumRoundTrip ==
    \A i \in 1..Len(spawned) : DatumToString(spawned[i].datum) = spawned[i].name

=============================================================================
